---- MODULE Spec2Model ----
(***************************************************************************)
(* A model of the quantitative toolkit of strategy-sim:                    *)
(*   src/src/tools/risk_modeler.py        Monte Carlo simulation and the   *)
(*                                        comprehensive risk assessment    *)
(*   src/src/tools/financial_calculator.py  NPV, IRR, payback, PI          *)
(*   src/app.py                           the chat session                 *)
(*   src/src/models, src/src/agents       conversations, reports, agents   *)
(*                                                                         *)
(* Numbers.  Python floats are modelled exactly where the code only adds,  *)
(* multiplies and divides integers: a value is a reduced rational <<n, d>> *)
(* with d > 0.  The Newton iteration of calculate_irr is modelled in       *)
(* decimal floating point (see the IRR section).  A standard deviation is  *)
(* carried as its square.                                                  *)
(*                                                                         *)
(* Optional values (Optional[int], Optional[float]) are sequences of       *)
(* length at most one: << >> is None, <<v>> is the value v.                *)
(***************************************************************************)
EXTENDS Integers, Sequences, FiniteSets, TLC

VARIABLES
    rng,     \* the process-wide numpy generator state (np.random)
    calls,   \* calls[t]: what the last finished call of caller t returned or raised
    frames,  \* frames[t]: the activation of run_monte_carlo_simulation caller t is inside
    fin,     \* the last call into financial_calculator and what it returned or raised
    session,       \* the chat session of src/app.py (cl.user_session) and its last message
    conversation,  \* an AgentConversation
    report,        \* a DecisionReport
    agent,         \* a BaseStrategicAgent: its tools and its AgentMetrics
    team           \* a DecisionAnalysisTeam and the analyze_decision call it is inside

\* the objects of the application layer, which the toolkit never touches
app == <<session, conversation, report, agent, team>>
vars == <<rng, calls, frames, fin, app>>

\* the value of an application-layer variable in a specification that
\* exercises only other parts of the program
NotInUse == [in_use |-> FALSE]
AppNotInUse ==
    /\ session = NotInUse /\ conversation = NotInUse
    /\ report = NotInUse /\ agent = NotInUse /\ team = NotInUse

(***************************************************************************)
(* Rational arithmetic                                                     *)
(***************************************************************************)
Abs(x) == IF x < 0 THEN -x ELSE x
Min(a, b) == IF a < b THEN a ELSE b

RECURSIVE Gcd(_, _)
Gcd(a, b) == IF b = 0 THEN a ELSE Gcd(b, a % b)

\* n/d as a reduced pair with a positive denominator (d # 0)
Rat(n, d) ==
    LET s == IF d < 0 THEN -1 ELSE 1
        g == Gcd(Abs(n), Abs(d))
    IN  <<(s * n) \div g, (s * d) \div g>>

RInt(k) == <<k, 1>>
RAdd(a, b) ==
    LET g == Gcd(a[2], b[2])
    IN  Rat(a[1] * (b[2] \div g) + b[1] * (a[2] \div g), (a[2] \div g) * b[2])
RNeg(a) == <<-a[1], a[2]>>
RSub(a, b) == RAdd(a, RNeg(b))
RMul(a, b) ==
    LET g1 == Gcd(Abs(a[1]), b[2])
        g2 == Gcd(Abs(b[1]), a[2])
    IN  Rat((a[1] \div g1) * (b[1] \div g2), (a[2] \div g2) * (b[2] \div g1))
RDiv(a, b) == RMul(a, IF b[1] < 0 THEN <<-b[2], -b[1]>> ELSE <<b[2], b[1]>>)
RAbs(a) == <<Abs(a[1]), a[2]>>
RLt(a, b) == a[1] * b[2] < b[1] * a[2]
RLe(a, b) == a[1] * b[2] <= b[1] * a[2]
RMin(a, b) == IF RLe(a, b) THEN a ELSE b

RECURSIVE RPow(_, _)
RPow(a, e) == IF e = 0 THEN RInt(1) ELSE RMul(a, RPow(a, e - 1))

RECURSIVE SetSum(_, _)
\* the sum of f[x] over x in S
SetSum(S, f) ==
    IF S = {} THEN 0
    ELSE LET x == CHOOSE y \in S : TRUE IN f[x] + SetSum(S \ {x}, f)

None == << >>
Some(v) == <<v>>

(***************************************************************************)
(* Bounds of the model                                                     *)
(***************************************************************************)
RngMod == 7         \* number of states of the modelled generator
MaxOutcome == 4     \* objective values lie in -MaxOutcome..MaxOutcome
BurstLen == 500     \* trials a thread runs between two points where it can be preempted

\* risk_modeler.py:94, MonteCarloResult.validate_iterations
MinIterations == 1000

RngStates == 0..(RngMod - 1)
OutDom == (-MaxOutcome)..MaxOutcome

(***************************************************************************)
(* np.random: one generator for the whole process.  seed(s) sets its       *)
(* state from s alone; every draw reads the state and advances it.         *)
(***************************************************************************)
SeedRng(s) == s % RngMod
NextRng(s) == (s + 1) % RngMod

(***************************************************************************)
(* Inputs of the Monte Carlo operations                                    *)
(***************************************************************************)
RevenueVar ==
    [name |-> "revenue", distribution |-> "uniform",
     parameters |-> [min |-> -1, max |-> 2]]
CostVar ==
    [name |-> "cost", distribution |-> "normal",
     parameters |-> [mean |-> 1, std |-> 1]]

\* a variable that is always 0, one whose values are mostly large, and one
\* that is spread evenly around 0
FixedVar ==
    [name |-> "cost", distribution |-> "uniform",
     parameters |-> [min |-> 0, max |-> 0]]
MarginVar ==
    [name |-> "margin", distribution |-> "triangular",
     parameters |-> [min |-> -1, mode |-> 4, max |-> 4]]
DemandVar ==
    [name |-> "demand", distribution |-> "uniform",
     parameters |-> [min |-> -1, max |-> 1]]

\* the risk_variables lists a caller passes
VarSets == {<<RevenueVar>>, <<RevenueVar, CostVar>>}
\* the lists a caller of the assessment passes
AssessVarSets == VarSets \cup {<<FixedVar>>, <<MarginVar>>, <<DemandVar, CostVar>>}
\* the caller-supplied objective functions
Objectives == {"total"}
IterationChoices == {0, MinIterations - 1, MinIterations}
SeedChoices == {None, Some(3)}
SimInputs ==
    [risk_variables : VarSets, objective : Objectives,
     iterations : IterationChoices, random_seed : SeedChoices]

\* What np.percentile does with an empty array depends on the numpy build:
\* it raises IndexError, or raises ValueError / returns nan (and the
\* MonteCarloResult validator then raises ValueError).
EmptyPercentileOutcomes == {"IndexError", "ValueError"}

(***************************************************************************)
(* generate_random_sample: the value drawn is a function of the generator  *)
(* state u and of the parameters the branch reads; a parameter the dict    *)
(* lacks is a KeyError.                                                    *)
(***************************************************************************)
Sampled(v) == [ok |-> TRUE, value |-> v, err |-> "none"]
SampleFails(e) == [ok |-> FALSE, value |-> 0, err |-> e]
Has(parameters, keys) == keys \subseteq DOMAIN parameters

generate_random_sample(distribution, parameters, u) ==
    CASE distribution = "normal" ->
            IF Has(parameters, {"mean", "std"})
            THEN Sampled(parameters.mean + parameters.std * ((u % 3) - 1))
            ELSE SampleFails("KeyError")
      [] distribution = "uniform" ->
            IF Has(parameters, {"min", "max"})
            THEN Sampled(parameters.min + (u % (parameters.max - parameters.min + 1)))
            ELSE SampleFails("KeyError")
      [] distribution = "triangular" ->
            IF Has(parameters, {"min", "mode", "max"})
            THEN Sampled(CASE u % 4 = 0 -> parameters.min
                           [] u % 4 = 3 -> parameters.max
                           [] OTHER -> parameters.mode)
            ELSE SampleFails("KeyError")
      [] distribution = "beta" ->
            IF Has(parameters, {"alpha", "beta"})
            THEN Sampled(IF u % (parameters.alpha + parameters.beta) < parameters.alpha
                         THEN 1 ELSE 0)
            ELSE SampleFails("KeyError")
      [] distribution = "exponential" ->
            IF Has(parameters, {"scale"})
            THEN Sampled(parameters.scale * (u % 3))
            ELSE SampleFails("KeyError")
      [] distribution = "lognormal" ->
            IF Has(parameters, {"mean", "sigma"})
            THEN Sampled(1 + parameters.mean + parameters.sigma * (u % 2))
            ELSE SampleFails("KeyError")
      [] OTHER -> SampleFails("ValueError")

\* the objective functions the callers supply
objective_function(objective, variable_values) ==
    CASE objective = "total" -> SetSum(DOMAIN variable_values, variable_values)
      [] OTHER -> 0

(***************************************************************************)
(* run_monte_carlo_simulation, in the pieces a thread executes one after   *)
(* the other: entry (the optional reseed), the trials, the summary.        *)
(***************************************************************************)
NoValues == [x \in {} |-> 0]

\* The state of one activation: the generator as this activation last left
\* it, the results list (as a histogram: the summary reads nothing else),
\* how often the objective was called, how many samples were drawn, whether
\* np.random.seed was called, and the exception a trial raised.
TrialStates ==
    [rng : RngStates, hist : [OutDom -> Nat], objective_calls : Nat,
     samples : Nat, reseeded : BOOLEAN, err : {"none", "KeyError", "ValueError"}]

\* EnterSimulation without lines 223-224: the seed is not applied
EnterSimulationUnseeded(rng0, random_seed) ==
    [rng |-> rng0,
     hist |-> [v \in OutDom |-> 0], objective_calls |-> 0, samples |-> 0,
     reseeded |-> FALSE, err |-> "none"]

\* lines 223-226
EnterSimulation(rng0, random_seed) ==
    [rng |-> IF random_seed # None THEN SeedRng(random_seed[1]) ELSE rng0,
     hist |-> [v \in OutDom |-> 0], objective_calls |-> 0, samples |-> 0,
     reseeded |-> random_seed # None, err |-> "none"]

RECURSIVE SampleVariables(_, _, _)
\* lines 230-233: one draw per variable, in list order, from the shared generator
SampleVariables(risk_variables, k, acc) ==
    IF k > Len(risk_variables) \/ acc.err # "none" THEN acc
    ELSE LET var == risk_variables[k]
             s == generate_random_sample(var.distribution, var.parameters, acc.rng)
         IN  SampleVariables(risk_variables, k + 1,
                IF s.ok
                THEN [rng |-> NextRng(acc.rng),
                      values |-> (var.name :> s.value) @@ acc.values,
                      samples |-> acc.samples + 1, err |-> "none"]
                ELSE [acc EXCEPT !.err = s.err])

\* lines 228-237: one pass of the loop body; st.rng is the generator as the
\* pass finds it
OneTrial(risk_variables, objective, st) ==
    IF st.err # "none" THEN st
    ELSE LET d == SampleVariables(risk_variables, 1,
                    [rng |-> st.rng, values |-> NoValues, samples |-> 0, err |-> "none"])
         IN  IF d.err # "none"
             THEN [st EXCEPT !.rng = d.rng, !.samples = @ + d.samples, !.err = d.err]
             ELSE LET objective_value == objective_function(objective, d.values)
                  IN  [st EXCEPT !.rng = d.rng, !.samples = @ + d.samples,
                                 !.objective_calls = @ + 1,
                                 !.hist[objective_value] = @ + 1]

\* n consecutive passes of the loop with no other user of the generator in
\* between (n passes are n1 passes followed by n - n1 passes)
RunTrials[n \in Nat, risk_variables \in AssessVarSets, objective \in Objectives, st \in TrialStates] ==
    IF n = 0 THEN st
    ELSE IF n = 1 THEN OneTrial(risk_variables, objective, st)
    ELSE RunTrials[n - (n \div 2), risk_variables, objective,
                   RunTrials[n \div 2, risk_variables, objective, st]]

(***************************************************************************)
(* The summary of the results list (lines 239-266), computed from the      *)
(* histogram h of the results.                                             *)
(***************************************************************************)
HCount(h) == SetSum(OutDom, h)
HSum(h) == SetSum(OutDom, [v \in OutDom |-> v * h[v]])
HSumSq(h) == SetSum(OutDom, [v \in OutDom |-> v * v * h[v]])
CumCount(h, v) == SetSum({w \in OutDom : w <= v}, h)
\* the element at index k (from 0) of the sorted results
Kth(h, k) == CHOOSE v \in OutDom : CumCount(h, v - 1) <= k /\ k < CumCount(h, v)

np_mean(h) == Rat(HSum(h), HCount(h))
\* np.std squared: the population variance
np_std_sq(h) == Rat(HCount(h) * HSumSq(h) - HSum(h) * HSum(h), HCount(h) * HCount(h))
\* np.percentile(a, q), numpy's default linear method, with q given in tenths
\* of a percent: the virtual index q/100 * (n - 1) lies between two elements
\* of the sorted array and the value is interpolated between them
np_percentile(h, q10) ==
    LET n == HCount(h)
        pos == q10 * (n - 1)
        lo == pos \div 1000
        rem == pos % 1000
        hi == IF lo + 1 > n - 1 THEN n - 1 ELSE lo + 1
    IN  Rat(Kth(h, lo) * 1000 + rem * (Kth(h, hi) - Kth(h, lo)), 1000)
\* np.mean(a[a <= x])
MeanAtMost(h, x) ==
    LET tail == {v \in OutDom : RLe(RInt(v), x)}
    IN  Rat(SetSum(tail, [v \in OutDom |-> v * h[v]]), SetSum(tail, h))
\* np.mean(a <= 0)
FractionNotPositive(h) == Rat(SetSum({v \in OutDom : v <= 0}, h), HCount(h))
\* np.mean(a < 0)
FractionNegative(h) == Rat(SetSum({v \in OutDom : v < 0}, h), HCount(h))

\* lines 91-96
validate_iterations(v) == IF v < MinIterations THEN "ValueError" ELSE "ok"

\* lines 242-278, for a non-empty results list
MonteCarloResult(iterations, h) ==
    [variable_name |-> "objective_value",
     iterations |-> iterations,
     mean |-> np_mean(h),
     std_dev_sq |-> np_std_sq(h),
     percentiles |-> [p5 |-> np_percentile(h, 50), p10 |-> np_percentile(h, 100),
                      p25 |-> np_percentile(h, 250), p50 |-> np_percentile(h, 500),
                      p75 |-> np_percentile(h, 750), p90 |-> np_percentile(h, 900),
                      p95 |-> np_percentile(h, 950)],
     var_95 |-> np_percentile(h, 50),
     cvar_95 |-> MeanAtMost(h, np_percentile(h, 50)),
     probability_negative |-> FractionNegative(h),
     confidence_intervals |->
        [ci90 |-> <<np_percentile(h, 50), np_percentile(h, 950)>>,
         ci95 |-> <<np_percentile(h, 25), np_percentile(h, 975)>>,
         ci99 |-> <<np_percentile(h, 5), np_percentile(h, 995)>>]]

\* What the activation returns or raises once the loop has ended in state st
\* (lines 239-278).  An exception of a trial propagates.  With no results the
\* percentiles are taken of an empty array (emptyOutcome: what this numpy
\* build does then).  Otherwise the MonteCarloResult is constructed, and its
\* validator is the only check of 'iterations'.
CompleteSimulation(iterations, st, emptyOutcome) ==
    IF st.err # "none" THEN [outcome |-> st.err, result |-> None]
    ELSE IF HCount(st.hist) = 0 THEN [outcome |-> emptyOutcome, result |-> None]
    ELSE IF validate_iterations(iterations) # "ok"
         THEN [outcome |-> validate_iterations(iterations), result |-> None]
    ELSE [outcome |-> "ok", result |-> Some(MonteCarloResult(iterations, st.hist))]

\* range(iterations) is empty for iterations <= 0
TrialCount(iterations) == IF iterations < 0 THEN 0 ELSE iterations

\* lines 205-278: the whole call, run with no other user of the generator in
\* between, from generator state rng0.  The generator it leaves behind and
\* the work it did are reported with what it returned or raised.
run_monte_carlo_simulation(rng0, risk_variables, objective, iterations, random_seed, emptyOutcome) ==
    LET st == RunTrials[TrialCount(iterations), risk_variables, objective,
                        EnterSimulation(rng0, random_seed)]
        done == CompleteSimulation(iterations, st, emptyOutcome)
    IN  [rng |-> st.rng, outcome |-> done.outcome, result |-> done.result,
         objective_calls |-> st.objective_calls, samples |-> st.samples,
         reseeded |-> st.reseeded]

(***************************************************************************)
(* calculate_sensitivity_analysis (lines 322-400).  A dict is a function;  *)
(* variable_ranges is the sequence of its items in iteration order.        *)
(* Variable names are numbers.                                             *)
(***************************************************************************)
MaxVars == 6    \* base_case_inputs has at most this many variables

\* line 392: tornado_chart_data[:5]
MostSensitiveCount == 5

SensBaseValues == {-2, 0, 1}
\* the caller's objective functions: "weighted" only reads its argument;
\* "clamping" first replaces, in the dict it is given, every negative input
\* by 0
SensObjectives == {"weighted", "clamping"}
NumPointChoices == {0, 3}
\* which variables variable_ranges names, and in which order
RangeOrders == {"forward", "reverse", "extra"}
SensBases == UNION {[1..n -> SensBaseValues] : n \in 0..MaxVars}
\* every base case with its variables in order and 3 points; the base cases
\* of at most 2 variables also in the other orders and with no points
SensInputs ==
    {inp \in [base_case_inputs : SensBases, order : RangeOrders,
              objective : SensObjectives, num_points : NumPointChoices] :
        /\ \/ Len(inp.base_case_inputs) <= 2
           \/ inp.order = "forward" /\ inp.num_points # 0
        /\ inp.objective = "clamping" =>
              Len(inp.base_case_inputs) <= 2 /\ inp.order = "forward" /\ inp.num_points # 0}

\* the items of variable_ranges: every variable of the base case with the
\* range (0, 2); "extra" adds a variable the base case does not have
variable_ranges(inp) ==
    LET n == Len(inp.base_case_inputs)
        Item(k) == [name |-> k, min_val |-> RInt(0), max_val |-> RInt(2)]
    IN  CASE inp.order = "forward" -> [i \in 1..n |-> Item(i)]
          [] inp.order = "reverse" -> [i \in 1..n |-> Item(n + 1 - i)]
          [] OTHER -> [i \in 1..(n + 1) |-> Item(i)]

RECURSIVE WeightedSum(_, _, _)
WeightedSum(S, f, weighted) ==
    IF S = {} THEN RInt(0)
    ELSE LET x == CHOOSE y \in S : TRUE
         IN  RAdd(RMul(RInt(IF weighted THEN x ELSE 1), f[x]),
                  WeightedSum(S \ {x}, f, weighted))

\* the dict an objective function was given, after the call
objective_effect(objective, inputs) ==
    IF objective = "clamping"
    THEN [k \in DOMAIN inputs |-> IF RLt(inputs[k], RInt(0)) THEN RInt(0) ELSE inputs[k]]
    ELSE inputs

\* the value the caller-supplied objective returns for a dict of floats
sens_objective_function(objective, inputs) ==
    WeightedSum(DOMAIN inputs, objective_effect(objective, inputs),
                objective \in {"weighted", "clamping"})

\* dict.copy() followed by d[key] = value
WithItem(d, key, value) == (key :> value) @@ d

\* np.linspace(min_val, max_val, num_points), num_points >= 0
linspace(min_val, max_val, num_points) ==
    [i \in 1..num_points |->
        IF num_points = 1 THEN min_val
        ELSE RAdd(min_val, RMul(Rat(i - 1, num_points - 1), RSub(max_val, min_val)))]

RMaxOf(q) == CHOOSE x \in {q[i] : i \in DOMAIN q} : \A i \in DOMAIN q : RLe(q[i], x)
RMinOf(q) == CHOOSE x \in {q[i] : i \in DOMAIN q} : \A i \in DOMAIN q : RLe(x, q[i])

\* line 389: list.sort(key=abs(impact), reverse=True) is stable: an entry
\* goes behind every entry whose |impact| is at least its own
InsertByImpact(sorted, e) ==
    LET ahead == {i \in DOMAIN sorted : RLe(RAbs(e[2]), RAbs(sorted[i][2]))}
        k == Cardinality(ahead)
    IN  SubSeq(sorted, 1, k) \o <<e>> \o SubSeq(sorted, k + 1, Len(sorted))

\* the tornado list without line 389: left in the order of the loop
TornadoUnsorted(entries, sorted) == entries

RECURSIVE SortByImpact(_, _)
SortByImpact(entries, sorted) ==
    IF entries = << >> THEN sorted
    ELSE SortByImpact(Tail(entries), InsertByImpact(sorted, Head(entries)))

AnyValue(base_input_value) == TRUE
\* line 368: base_input_value != 0
NotZero(base_input_value) == base_input_value[1] # 0

\* lines 345-386: the pass of the loop for one item of variable_ranges.  st
\* holds the three collections the loop fills, the number of calls of the
\* objective so far and the exception raised.
SensitivityStep(objective, num_points, base_inputs, base_case_value, item, st) ==
    IF st.err # "none" THEN st
    ELSE
    LET test_values == linspace(item.min_val, item.max_val, num_points)
        outcomes == [i \in DOMAIN test_values |->
                        sens_objective_function(objective,
                            WithItem(base_inputs, item.name, test_values[i]))]
        results == WithItem(st.sensitivity_results, item.name,
                            [input_values |-> test_values,
                             output_values |-> outcomes,
                             range |-> RSub(RMaxOf(outcomes), RMinOf(outcomes))])
        called == st.objective_calls + Len(outcomes)
    IN  IF Len(outcomes) = 0 THEN [st EXCEPT !.err = "ValueError"]
        ELSE IF item.name \notin DOMAIN base_inputs
        THEN [st EXCEPT !.err = "KeyError", !.objective_calls = called,
                        !.sensitivity_results = results]
        ELSE
        LET base_input_value == base_inputs[item.name]
            outcome_high == sens_objective_function(objective,
                                WithItem(base_inputs, item.name,
                                         RMul(base_input_value, Rat(11, 10))))
            outcome_low == sens_objective_function(objective,
                                WithItem(base_inputs, item.name,
                                         RMul(base_input_value, Rat(9, 10))))
            impact == RDiv(RSub(outcome_high, outcome_low), RInt(2))
            elasticity == RDiv(RDiv(RSub(outcome_high, outcome_low), base_case_value),
                               Rat(2, 10))
        IN  IF ~NotZero(base_input_value)
            THEN [st EXCEPT !.objective_calls = called, !.sensitivity_results = results]
            ELSE [st EXCEPT !.objective_calls = called + 2,
                            !.sensitivity_results = results,
                            !.tornado_chart_data = Append(@, <<item.name, impact>>),
                            !.elasticity_measures =
                                IF base_case_value[1] # 0
                                THEN WithItem(@, item.name, elasticity) ELSE @]

RECURSIVE SensitivityLoop(_, _, _, _, _, _)
SensitivityLoop(objective, num_points, base_inputs, base_case_value, items, st) ==
    IF items = << >> THEN st
    ELSE SensitivityLoop(objective, num_points, base_inputs, base_case_value, Tail(items),
            SensitivityStep(objective, num_points, base_inputs, base_case_value,
                            Head(items), st))

NoItems == [x \in {} |-> 0]

\* the floats of a dict of numbers
Floats(d) == [k \in DOMAIN d |-> RInt(d[k])]

\* line 326: the default of num_points
DefaultNumPoints == 10

\* lines 322-400; ranges is the sequence of the items of variable_ranges.
\* Line 340 hands the objective function the caller's dict itself, every
\* later call (lines 352-356, 370-377) a copy of it: base_inputs is the
\* caller's dict after line 340.
calculate_sensitivity_analysis(base_case_inputs, ranges, objective, num_points) ==
    LET base_inputs == objective_effect(objective, Floats(base_case_inputs))
        base_case_value == sens_objective_function(objective, Floats(base_case_inputs))
        st == SensitivityLoop(objective, num_points, base_inputs, base_case_value, ranges,
                  [sensitivity_results |-> NoItems, tornado_chart_data |-> << >>,
                   elasticity_measures |-> NoItems, objective_calls |-> 1,
                   err |-> "none"])
        tornado_chart_data == SortByImpact(st.tornado_chart_data, << >>)
    IN  IF st.err # "none"
        THEN [outcome |-> st.err, value |-> None, objective_calls |-> st.objective_calls,
              base_case_inputs |-> base_inputs, calls_on_callers_dict |-> 1]
        ELSE [outcome |-> "ok",
              base_case_inputs |-> base_inputs, calls_on_callers_dict |-> 1,
              value |-> [base_case_value |-> base_case_value,
                         sensitivity_results |-> st.sensitivity_results,
                         tornado_chart_data |-> tornado_chart_data,
                         most_sensitive_variables |->
                             [i \in 1..Min(MostSensitiveCount, Len(tornado_chart_data))
                                 |-> tornado_chart_data[i][1]],
                         elasticity_measures |-> st.elasticity_measures],
              objective_calls |-> st.objective_calls]

(***************************************************************************)
(* perform_scenario_analysis (lines 281-319) and the ScenarioAnalysis      *)
(* model it builds (lines 99-116).  scenario_definitions is the sequence   *)
(* of the dict's items in iteration order; a definition is a dict that     *)
(* holds some of the keys 'type', 'assumptions', 'probability'.            *)
(***************************************************************************)
MaxScenarios == 2    \* scenario_definitions has at most this many items

ScenarioTypes == {"best_case", "base_case", "worst_case", "stress_test", "black_swan"}
ScenarioNames == <<"downturn", "expected", "upside", "shock">>
BaseAssumptions == {[revenue |-> 2, cost |-> 1], [x \in {} |-> 0]}
ScenarioDefs ==
    { [type |-> "worst_case", assumptions |-> [revenue |-> 0], probability |-> Rat(1, 4)],
      [type |-> "best_case", assumptions |-> [revenue |-> 3, price |-> 1]],
      [type |-> "base_case"],
      [assumptions |-> [cost |-> 2]],
      [type |-> "catastrophe"],
      [type |-> "stress_test", probability |-> Rat(3, 2)] }
\* the item lists: the first n names, each with any of the definitions
ScenarioLists ==
    UNION { { [i \in 1..n |-> [name |-> ScenarioNames[i], def |-> d[i]]] :
                d \in [1..n -> ScenarioDefs] } : n \in 0..MaxScenarios }

\* dict.get(key, default)
Get(d, key, default) == IF key \in DOMAIN d THEN d[key] ELSE default

\* the caller-supplied outcome calculator; the one assess passes (line 646)
\* wraps the objective the same way
outcome_calculator(assumptions) ==
    [outcome |-> SetSum(DOMAIN assumptions, assumptions)]

\* ScenarioStep that merges the other way round: the base value wins
ScenarioStepBaseWins(base_case_assumptions, item, st) ==
    IF st.err # "none" THEN st
    ELSE
    LET scenario_assumptions == base_case_assumptions @@ Get(item.def, "assumptions", NoItems)
        scenario == [scenario_name |-> item.name,
                     scenario_type |-> Get(item.def, "type", "base_case"),
                     assumptions |-> scenario_assumptions,
                     outcomes |-> outcome_calculator(scenario_assumptions),
                     probability |-> Get(item.def, "probability", Rat(1, 2))]
    IN  IF /\ scenario.scenario_type \in ScenarioTypes
           /\ RLe(RInt(0), scenario.probability) /\ RLe(scenario.probability, RInt(1))
        THEN [st EXCEPT !.scenarios = Append(@, scenario), !.objective_calls = @ + 1]
        ELSE [st EXCEPT !.err = "ValueError", !.objective_calls = @ + 1]

\* lines 298-316: the pass of the loop for one item.  The ScenarioAnalysis
\* constructor rejects a type outside ScenarioType and a probability
\* outside [0, 1].
ScenarioStep(base_case_assumptions, item, st) ==
    IF st.err # "none" THEN st
    ELSE
    LET scenario_assumptions == Get(item.def, "assumptions", NoItems) @@ base_case_assumptions
        outcomes == outcome_calculator(scenario_assumptions)
        scenario_type == Get(item.def, "type", "base_case")
        probability == Get(item.def, "probability", Rat(1, 2))
        scenario == [scenario_name |-> item.name,
                     scenario_type |-> scenario_type,
                     assumptions |-> scenario_assumptions,
                     outcomes |-> outcomes,
                     probability |-> probability]
    IN  IF /\ scenario_type \in ScenarioTypes
           /\ RLe(RInt(0), probability) /\ RLe(probability, RInt(1))
        THEN [st EXCEPT !.scenarios = Append(@, scenario), !.objective_calls = @ + 1]
        ELSE [st EXCEPT !.err = "ValueError", !.objective_calls = @ + 1]

RECURSIVE ScenarioLoop(_, _, _)
ScenarioLoop(base_case_assumptions, items, st) ==
    IF items = << >> THEN st
    ELSE ScenarioLoop(base_case_assumptions, Tail(items),
                      ScenarioStep(base_case_assumptions, Head(items), st))

\* lines 281-319
perform_scenario_analysis(base_case_assumptions, scenario_definitions) ==
    LET st == ScenarioLoop(base_case_assumptions, scenario_definitions,
                           [scenarios |-> << >>, objective_calls |-> 0, err |-> "none"])
    IN  IF st.err # "none"
        THEN [outcome |-> st.err, value |-> None, objective_calls |-> st.objective_calls]
        ELSE [outcome |-> "ok", value |-> st.scenarios,
              objective_calls |-> st.objective_calls]

(***************************************************************************)
(* RiskVariable (lines 50-75): construction runs validate_parameters.      *)
(***************************************************************************)
Distributions == {"normal", "uniform", "triangular", "beta", "exponential", "lognormal"}
ParameterKeys == {"mean", "std", "min", "max", "mode", "alpha", "beta", "scale", "sigma"}
\* the parameter dicts a caller passes: any set of keys, every value 1
ParameterMaps == UNION {[K -> {1}] : K \in SUBSET ParameterKeys}

\* lines 60-75: TRUE when the validator returns, FALSE when it raises
validate_parameters(distribution, v) ==
    CASE distribution = "normal" -> Has(v, {"mean", "std"})
      [] distribution = "uniform" -> Has(v, {"min", "max"})
      [] distribution = "triangular" -> Has(v, {"min", "max", "mode"})
      [] OTHER -> TRUE

\* RiskVariable(name=..., description=..., distribution=..., parameters=...)
RiskVariable(distribution, parameters) ==
    IF validate_parameters(distribution, parameters)
    THEN [outcome |-> "ok",
          value |-> Some([name |-> "x", distribution |-> distribution,
                          parameters |-> parameters]),
          objective_calls |-> 0]
    ELSE [outcome |-> "ValueError", value |-> None, objective_calls |-> 0]

(***************************************************************************)
(* calculate_risk_metrics (lines 403-505).  A float is a number, nan or    *)
(* -inf: numpy divides by zero without raising.                            *)
(***************************************************************************)
MaxHistory == 4    \* historical_data has at most this many entries

HistoryValues == {-2, -1, 0, 1, 2}
Histories == UNION {[1..n -> HistoryValues] : n \in 0..MaxHistory}
ConfidenceLevels == {Rat(95, 100), Rat(9, 10)}

Num(r) == [kind |-> "num", num |-> r]
NaN == [kind |-> "nan", num |-> RInt(0)]
NegInf == [kind |-> "-inf", num |-> RInt(0)]

\* np.array(historical_data), as the histogram of its values
HistogramOf(data) == [v \in OutDom |-> Cardinality({i \in DOMAIN data : data[i] = v})]

\* np.cumsum(data_array)[i]
CumulativeReturn(data, i) == SetSum(1..i, data)
\* np.maximum.accumulate(cumulative_returns)[i]
Peak(data, i) ==
    CHOOSE p \in {CumulativeReturn(data, j) : j \in 1..i} :
        \A j \in 1..i : CumulativeReturn(data, j) <= p
\* line 453: (cumulative_returns - peak) / peak, element i
Drawdown(data, i) ==
    LET peak == Peak(data, i)
        below == CumulativeReturn(data, i) - peak
    IN  IF peak # 0 THEN Num(Rat(below, peak))
        ELSE IF below = 0 THEN NaN ELSE NegInf

\* line 454: np.min(drawdown); a nan element makes the minimum nan
MaxDrawdown(data) ==
    LET drawdown == [i \in DOMAIN data |-> Drawdown(data, i)]
        elems == {drawdown[i] : i \in DOMAIN data}
    IN  IF NaN \in elems THEN NaN
        ELSE IF NegInf \in elems THEN NegInf
        ELSE CHOOSE x \in elems : \A y \in elems : RLe(x.num, y.num)

RECURSIVE CentralMomentSum(_, _, _, _)
\* the sum over data[i..] of (x - mean) ** k
CentralMomentSum(data, mean, k, i) ==
    IF i > Len(data) THEN RInt(0)
    ELSE RAdd(RPow(RSub(RInt(data[i]), mean), k), CentralMomentSum(data, mean, k, i + 1))

\* np.mean((data_array - mean) ** k)
CentralMoment(data, k) ==
    RDiv(CentralMomentSum(data, np_mean(HistogramOf(data)), k, 1), RInt(Len(data)))

\* line 480: mean(((x - mean) / std) ** 3); std is a square root, so the
\* value is given by its sign and its square, m3 ** 2 / variance ** 3
Skewness(data) ==
    LET variance == np_std_sq(HistogramOf(data))
        m3 == CentralMoment(data, 3)
    IN  IF variance[1] = 0 THEN NaN
        ELSE [kind |-> "num", num |-> RDiv(RMul(m3, m3), RPow(variance, 3)),
              sign |-> IF m3[1] < 0 THEN -1 ELSE IF m3[1] > 0 THEN 1 ELSE 0]

\* line 493: mean(((x - mean) / std) ** 4) - 3
Kurtosis(data) ==
    LET variance == np_std_sq(HistogramOf(data))
    IN  IF variance[1] = 0 THEN NaN
        ELSE Num(RSub(RDiv(CentralMoment(data, 4), RPow(variance, 2)), RInt(3)))

RiskMetric(metric_name, value, confidence_level) ==
    [metric_name |-> metric_name, value |-> value, confidence_level |-> confidence_level]

\* lines 403-505; Volatility carries the square of np.std
calculate_risk_metrics(historical_data, confidence_level) ==
    IF Len(historical_data) = 0
    THEN [outcome |-> "ValueError", value |-> None, objective_calls |-> 0]
    ELSE
    LET h == HistogramOf(historical_data)
        var_percentile == RMul(RSub(RInt(1), confidence_level), RInt(1000))[1]
        var_value == np_percentile(h, var_percentile)
    IN  [outcome |-> "ok",
         value |->
           << RiskMetric("Value at Risk (VaR)", Num(var_value), confidence_level),
              RiskMetric("Conditional Value at Risk (CVaR)",
                         Num(MeanAtMost(h, var_value)), confidence_level),
              RiskMetric("Maximum Drawdown", MaxDrawdown(historical_data), RInt(1)),
              RiskMetric("Volatility", Num(np_std_sq(h)), confidence_level),
              RiskMetric("Skewness", Skewness(historical_data), confidence_level),
              RiskMetric("Kurtosis", Kurtosis(historical_data), confidence_level) >>,
         objective_calls |-> 0]

(***************************************************************************)
(* perform_comprehensive_risk_assessment (lines 614-700): the Monte Carlo  *)
(* run, the scenario analysis, the sensitivity analysis, the risk metrics, *)
(* the composite score and the recommendations.                            *)
(***************************************************************************)
BaseRecommendations ==
    << "Monitor key risk variables closely",
       "Develop contingency plans for worst-case scenarios",
       "Consider risk mitigation strategies",
       "Implement early warning systems",
       "Regular risk assessment updates" >>
HighProbabilityWarning ==
    "High probability of negative outcomes - consider risk reduction measures"
HighScoreWarning == "High overall risk score - recommend conservative approach"

\* line 670
WorstCaseFraction(scenario_types) ==
    IF Len(scenario_types) = 0 THEN RInt(0)
    ELSE Rat(Cardinality({k \in 1..Len(scenario_types) : scenario_types[k] = "worst_case"}),
             Len(scenario_types))

\* lines 667-672 without the third risk factor
overall_risk_score_without_scenarios(mc, scenario_types) ==
    LET f1 == mc.probability_negative
        f2 == IF mc.mean[1] # 0 THEN RDiv(RAbs(mc.var_95), RAbs(mc.mean)) ELSE RInt(0)
    IN  RMin(RDiv(RAdd(f1, f2), RInt(3)), RInt(1))

\* lines 667-672
overall_risk_score(mc, scenario_types) ==
    LET f1 == mc.probability_negative
        f2 == IF mc.mean[1] # 0 THEN RDiv(RAbs(mc.var_95), RAbs(mc.mean)) ELSE RInt(0)
        f3 == WorstCaseFraction(scenario_types)
    IN  RMin(RDiv(RAdd(RAdd(f1, f2), f3), RInt(3)), RInt(1))

\* lines 675-687 with the second threshold at 0.5
RecommendationsFromHalf(mc, score) ==
    BaseRecommendations
      \o (IF RLt(Rat(2, 10), mc.probability_negative) THEN <<HighProbabilityWarning>> ELSE << >>)
      \o (IF RLt(Rat(5, 10), score) THEN <<HighScoreWarning>> ELSE << >>)

\* lines 675-687
Recommendations(mc, score) ==
    BaseRecommendations
      \o (IF RLt(Rat(2, 10), mc.probability_negative) THEN <<HighProbabilityWarning>> ELSE << >>)
      \o (IF RLt(Rat(7, 10), score) THEN <<HighScoreWarning>> ELSE << >>)

\* lines 650-655: the items of variable_ranges, one for every risk variable
\* that base_case_inputs names, in the order of risk_variables
assess_variable_ranges(risk_variables, base_case_inputs) ==
    LET named == SelectSeq(risk_variables, LAMBDA var : var.name \in DOMAIN base_case_inputs)
        base(var) == RInt(base_case_inputs[var.name])
    IN  [i \in DOMAIN named |->
            [name |-> named[i].name,
             min_val |-> IF "min" \in DOMAIN named[i].parameters
                         THEN RInt(named[i].parameters.min)
                         ELSE RMul(base(named[i]), Rat(1, 2)),
             max_val |-> IF "max" \in DOMAIN named[i].parameters
                         THEN RInt(named[i].parameters.max)
                         ELSE RMul(base(named[i]), Rat(3, 2))]]

\* line 164: the bounds RiskAssessment declares for overall_risk_score
ValidScore(score) == RLe(RInt(0), score) /\ RLe(score, RInt(1))

\* the mean of the risk factors, neither capped at line 672 nor checked by
\* the RiskAssessment constructor
unchecked_risk_score(mc, scenario_types) ==
    LET f1 == mc.probability_negative
        f2 == IF mc.mean[1] # 0 THEN RDiv(RAbs(mc.var_95), RAbs(mc.mean)) ELSE RInt(0)
        f3 == WorstCaseFraction(scenario_types)
    IN  [outcome |-> "ok", value |-> RDiv(RAdd(RAdd(f1, f2), f3), RInt(3))]

\* lines 667-672 and 697: the score as the RiskAssessment constructor takes
\* or rejects it
checked_risk_score(mc, scenario_types) ==
    LET score == overall_risk_score(mc, scenario_types)
    IN  IF ValidScore(score) THEN [outcome |-> "ok", value |-> score]
        ELSE [outcome |-> "ValueError", value |-> score]

\* what the call is left with when a step after the simulation raises
AssessmentFails(run, e, objective_calls) ==
    [rng |-> run.rng, outcome |-> e, result |-> None, objective_calls |-> objective_calls,
     samples |-> run.samples, reseeded |-> run.reseeded, assessment |-> None]

\* lines 689-700: the RiskAssessment constructor, given the score as it
\* takes or rejects it
RiskAssessment(run, scenarios, sensitivity, metrics, called, checked) ==
    IF checked.outcome # "ok" THEN AssessmentFails(run, checked.outcome, called)
    ELSE [rng |-> run.rng, outcome |-> "ok", result |-> run.result,
          objective_calls |-> called,
          samples |-> run.samples, reseeded |-> run.reseeded,
          assessment |-> Some(
            [monte_carlo_results |-> run.result,
             scenario_analyses |-> scenarios.value,
             sensitivity_analysis |-> sensitivity.value,
             risk_metrics |-> metrics.value,
             overall_risk_score |-> checked.value,
             confidence_level |-> Rat(95, 100),
             recommendations |-> Recommendations(run.result[1], checked.value)])]

\* lines 666-700, given what the three analyses returned or raised: the
\* first exception propagates
AssessAfterAnalyses(run, scenarios, sensitivity, metrics) ==
    IF scenarios.outcome # "ok"
    THEN AssessmentFails(run, scenarios.outcome,
                         run.objective_calls + scenarios.objective_calls)
    ELSE IF sensitivity.outcome # "ok"
    THEN AssessmentFails(run, sensitivity.outcome,
                         run.objective_calls + scenarios.objective_calls
                            + sensitivity.objective_calls)
    ELSE IF metrics.outcome # "ok"
    THEN AssessmentFails(run, metrics.outcome,
                         run.objective_calls + scenarios.objective_calls
                            + sensitivity.objective_calls)
    ELSE RiskAssessment(run, scenarios, sensitivity, metrics,
                        run.objective_calls + scenarios.objective_calls
                            + sensitivity.objective_calls,
                        checked_risk_score(run.result[1],
                            [i \in DOMAIN scenarios.value |->
                                scenarios.value[i].scenario_type]))

\* lines 643-700: the rest of the call once the simulation has ended as run
AssessAfterSimulation(run, ainp) ==
    IF run.outcome # "ok" THEN AssessmentFails(run, run.outcome, run.objective_calls)
    ELSE AssessAfterAnalyses(run,
            perform_scenario_analysis(ainp.base_case_inputs, ainp.scenario_definitions),
            calculate_sensitivity_analysis(ainp.base_case_inputs,
                assess_variable_ranges(ainp.risk_variables, ainp.base_case_inputs),
                ainp.objective, DefaultNumPoints),
            IF Len(ainp.historical_data) > 0
            THEN calculate_risk_metrics(ainp.historical_data, Rat(95, 100))
            ELSE [outcome |-> "ok", value |-> << >>, objective_calls |-> 0])

\* lines 614-700.  The call at lines 639-641 passes no seed.
perform_comprehensive_risk_assessment(rng0, ainp, emptyOutcome) ==
    AssessAfterSimulation(
        run_monte_carlo_simulation(rng0, ainp.risk_variables, ainp.objective,
                                   ainp.monte_carlo_iterations, None, emptyOutcome),
        ainp)

\* the inputs of the assessments that run next to simulations
ScenarioChoices ==
    { << >>,
      << [name |-> "downturn", def |-> [type |-> "worst_case"]],
         [name |-> "expected", def |-> [type |-> "base_case"]] >> }
AssessInputs ==
    [risk_variables : VarSets, objective : Objectives,
     monte_carlo_iterations : IterationChoices,
     base_case_inputs : {[revenue |-> 2, cost |-> 1]},
     scenario_definitions : ScenarioChoices, historical_data : {<< >>}]

\* Every whole call the model can make, computed once: a call on inputs inp
\* that finds the generator in state g can end as r.
SimulationTable ==
    { [g |-> g, inp |-> inp,
       r |-> run_monte_carlo_simulation(g, inp.risk_variables, inp.objective,
                                        inp.iterations, inp.random_seed, e)
               @@ [assessment |-> None]] :
        g \in RngStates, inp \in SimInputs, e \in EmptyPercentileOutcomes }
AssessmentTable ==
    { [g |-> g, inp |-> ainp, r |-> perform_comprehensive_risk_assessment(g, ainp, e)] :
        g \in RngStates, ainp \in AssessInputs, e \in EmptyPercentileOutcomes }

(***************************************************************************)
(* The callers.  A coroutine of this module never awaits inside its body,  *)
(* so on one event loop a call runs from entry to return with nothing in   *)
(* between (Simulate, Assess).  Callers on different threads share the     *)
(* process-wide generator and are preempted between trials (Begin, Burst,  *)
(* Finish).                                                                *)
(***************************************************************************)
Callers == {"a", "b"}

NoCall == [op |-> "none"]
IdleFrame == [pc |-> "idle"]
NoFin == [op |-> "none"]

CallRecord(op, inp, r) ==
    [op |-> op, inp |-> inp, outcome |-> r.outcome, result |-> r.result,
     objective_calls |-> r.objective_calls, samples |-> r.samples,
     reseeded |-> r.reseeded, assessment |-> r.assessment]

InitMC ==
    /\ AppNotInUse
    /\ rng \in RngStates
    /\ calls = [t \in Callers |-> NoCall]
    /\ frames = [t \in Callers |-> IdleFrame]
    /\ fin = NoFin

\* one call of run_monte_carlo_simulation, entry to return
Simulate(t) ==
    /\ \A u \in Callers : frames[u].pc = "idle"
    /\ \E p \in SimulationTable :
           /\ p.g = rng
           /\ rng' = p.r.rng
           /\ calls' = [calls EXCEPT ![t] = CallRecord("simulate", p.inp, p.r)]
    /\ UNCHANGED <<frames, fin, app>>

\* one call of perform_comprehensive_risk_assessment, entry to return
Assess(t) ==
    /\ \A u \in Callers : frames[u].pc = "idle"
    /\ \E p \in AssessmentTable :
           /\ p.g = rng
           /\ rng' = p.r.rng
           /\ calls' = [calls EXCEPT ![t] = CallRecord("assess", p.inp, p.r)]
    /\ UNCHANGED <<frames, fin, app>>

\* any other code of the process draws from np.random
Draw ==
    /\ rng' = NextRng(rng)
    /\ UNCHANGED <<calls, frames, fin, app>>

NextMC ==
    \/ \E t \in Callers : Simulate(t)
    \/ \E t \in Callers : Assess(t)
    \/ Draw

SpecMC == InitMC /\ [][NextMC]_vars

(***************************************************************************)
(* Callers on threads: each is inside its own activation of                *)
(* run_monte_carlo_simulation; np.random is the one generator of the       *)
(* process.  A thread runs up to BurstLen passes of the loop before        *)
(* another thread can run.                                                 *)
(***************************************************************************)

\* the calls the threads make: each thread makes one
ThreadInputs ==
    {inp \in SimInputs : inp.risk_variables = <<RevenueVar>> /\ inp.iterations > 0}

\* lines 223-226: entry, the optional reseed of the shared generator
Begin(t, inp) ==
    /\ frames[t].pc = "idle"
    /\ calls[t] = NoCall
    /\ LET st == EnterSimulation(rng, inp.random_seed)
       IN  /\ frames' = [frames EXCEPT ![t] = [pc |-> "loop", inp |-> inp, st |-> st, i |-> 0]]
           /\ rng' = st.rng
    /\ UNCHANGED <<calls, fin, app>>

\* lines 228-237: the next passes of the loop, drawing from the shared generator
Burst(t) ==
    /\ frames[t].pc = "loop"
    /\ frames[t].st.err = "none"
    /\ frames[t].i < TrialCount(frames[t].inp.iterations)
    /\ LET f == frames[t]
           k == Min(BurstLen, TrialCount(f.inp.iterations) - f.i)
           st == RunTrials[k, f.inp.risk_variables, f.inp.objective,
                           [f.st EXCEPT !.rng = rng]]
       IN  /\ frames' = [frames EXCEPT ![t] = [f EXCEPT !.st = st, !.i = f.i + k]]
           /\ rng' = st.rng
    /\ UNCHANGED <<calls, fin, app>>

\* lines 239-278: the summary and the construction of the result
Finish(t, e) ==
    /\ frames[t].pc = "loop"
    /\ frames[t].st.err # "none" \/ frames[t].i = TrialCount(frames[t].inp.iterations)
    /\ LET f == frames[t]
           done == CompleteSimulation(f.inp.iterations, f.st, e)
       IN  calls' = [calls EXCEPT ![t] =
                        [op |-> "simulate", inp |-> f.inp, outcome |-> done.outcome,
                         result |-> done.result, objective_calls |-> f.st.objective_calls,
                         samples |-> f.st.samples, reseeded |-> f.st.reseeded,
                         assessment |-> None]]
    /\ frames' = [frames EXCEPT ![t] = IdleFrame]
    /\ UNCHANGED <<rng, fin, app>>

NextThreads ==
    \/ \E t \in Callers, inp \in ThreadInputs : Begin(t, inp)
    \/ \E t \in Callers : Burst(t)
    \/ \E t \in Callers, e \in EmptyPercentileOutcomes : Finish(t, e)

SpecThreads == InitMC /\ [][NextThreads]_vars

(***************************************************************************)
(* The assessment on its own: one caller makes one call of                 *)
(* perform_comprehensive_risk_assessment, with the generator in any state. *)
(***************************************************************************)
AssessHistories == {<< >>, <<0, 1>>}

\* the simulation of every assessment (lines 639-641), computed once
AssessRunTable ==
    { [g |-> g,
       inp |-> [risk_variables |-> risk_variables, objective |-> objective,
                monte_carlo_iterations |-> iterations],
       run |-> run_monte_carlo_simulation(g, risk_variables, objective, iterations,
                                          None, e)] :
        g \in RngStates, risk_variables \in AssessVarSets, objective \in Objectives,
        iterations \in IterationChoices, e \in EmptyPercentileOutcomes }

\* the other arguments of the call
AssessArguments ==
    [base_case_inputs : BaseAssumptions, scenario_definitions : ScenarioLists,
     historical_data : AssessHistories]

\* one call of perform_comprehensive_risk_assessment, entry to return
AssessOnce(t) ==
    /\ calls[t] = NoCall
    /\ \E p \in AssessRunTable :
          /\ p.g = rng
          /\ \E arguments \in AssessArguments :
                /\ rng' = p.run.rng
                /\ calls' = [calls EXCEPT ![t] =
                      CallRecord("assess", p.inp @@ arguments,
                                 AssessAfterSimulation(p.run, p.inp @@ arguments))]
    /\ UNCHANGED <<frames, fin, app>>

NextAssess == AssessOnce("a")

SpecAssess == InitMC /\ [][NextAssess]_vars

(***************************************************************************)
(* The pure operations of risk_modeler.py as a machine: a caller applies   *)
(* one operation to inputs it chooses; calls[t] records what it got.       *)
(***************************************************************************)
InitRisk ==
    /\ AppNotInUse
    /\ rng = 0
    /\ calls = [t \in Callers |-> NoCall]
    /\ frames = [t \in Callers |-> IdleFrame]
    /\ fin = NoFin

RiskCall(op, inp, r) ==
    [op |-> op, inp |-> inp, outcome |-> r.outcome, value |-> r.value,
     objective_calls |-> r.objective_calls]

\* the caller of the pure operations
PureCaller == "a"

\* what a call left: its result, the caller's dict after it, and how many
\* calls of the objective function were given that dict itself
SensitivityCall(inp, r) ==
    [op |-> "sensitivity", inp |-> inp, outcome |-> r.outcome, value |-> r.value,
     objective_calls |-> r.objective_calls, base_case_inputs |-> r.base_case_inputs,
     calls_on_callers_dict |-> r.calls_on_callers_dict]

Sensitivity(t) ==
    /\ calls[t] = NoCall
    /\ \E inp \in SensInputs :
          calls' = [calls EXCEPT ![t] =
                      SensitivityCall(inp,
                          calculate_sensitivity_analysis(inp.base_case_inputs,
                              variable_ranges(inp), inp.objective, inp.num_points))]
    /\ UNCHANGED <<rng, frames, fin, app>>

ConstructRiskVariable(t) ==
    /\ calls[t] = NoCall
    /\ \E distribution \in Distributions, parameters \in ParameterMaps :
          calls' = [calls EXCEPT ![t] =
                      RiskCall("construct",
                               [distribution |-> distribution, parameters |-> parameters],
                               RiskVariable(distribution, parameters))]
    /\ UNCHANGED <<rng, frames, fin, app>>

\* generate_random_sample on a variable that was constructed
SampleRiskVariable(t) ==
    /\ calls[t].op = "construct" /\ calls[t].outcome = "ok"
    /\ LET var == calls[t].value[1]
           s == generate_random_sample(var.distribution, var.parameters, rng)
       IN  /\ calls' = [calls EXCEPT ![t] =
                          RiskCall("sample", var,
                                   [outcome |-> IF s.ok THEN "ok" ELSE s.err,
                                    value |-> IF s.ok THEN Some(s.value) ELSE None,
                                    objective_calls |-> 0])]
           /\ rng' = IF s.ok THEN NextRng(rng) ELSE rng
    /\ UNCHANGED <<frames, fin, app>>

RiskMetrics(t) ==
    /\ calls[t] = NoCall
    /\ \E historical_data \in Histories, confidence_level \in ConfidenceLevels :
          calls' = [calls EXCEPT ![t] =
                      RiskCall("risk_metrics",
                               [historical_data |-> historical_data,
                                confidence_level |-> confidence_level],
                               calculate_risk_metrics(historical_data, confidence_level))]
    /\ UNCHANGED <<rng, frames, fin, app>>

ScenarioAnalysis(t) ==
    /\ calls[t] = NoCall
    /\ \E base \in BaseAssumptions, defs \in ScenarioLists :
          calls' = [calls EXCEPT ![t] =
                      RiskCall("scenario",
                               [base_case_assumptions |-> base, scenario_definitions |-> defs],
                               perform_scenario_analysis(base, defs))]
    /\ UNCHANGED <<rng, frames, fin, app>>

(***************************************************************************)
(* identify_black_swan_scenarios (lines 508-611).  A string is a sequence  *)
(* of characters, so that str.lower and the substring test are computed.   *)
(***************************************************************************)
UpperCase ==
    <<"A", "B", "C", "D", "E", "F", "G", "H", "I", "J", "K", "L", "M">> \o
    <<"N", "O", "P", "Q", "R", "S", "T", "U", "V", "W", "X", "Y", "Z">>
LowerCase ==
    <<"a", "b", "c", "d", "e", "f", "g", "h", "i", "j", "k", "l", "m">> \o
    <<"n", "o", "p", "q", "r", "s", "t", "u", "v", "w", "x", "y", "z">>
\* str.lower of one character
LowerChar(c) ==
    IF \E i \in DOMAIN UpperCase : UpperCase[i] = c
    THEN LowerCase[CHOOSE i \in DOMAIN UpperCase : UpperCase[i] = c]
    ELSE c
Lower(s) == [i \in DOMAIN s |-> LowerChar(s[i])]
\* sub in s
HasSubstring(sub, s) ==
    \E i \in 0..(Len(s) - Len(sub)) : SubSeq(s, i + 1, i + Len(sub)) = sub

Industries ==
    {<<"T", "E", "C", "H", "N", "O", "L", "O", "G", "Y">>, <<"T", "e", "c", "h", "n", "o", "l", "o", "g", "y">>, <<"h", "e", "a", "l", "t", "h", "c", "a", "r", "e">>,
     <<"F", "i", "n", "a", "n", "c", "i", "a", "l">>, <<"r", "e", "t", "a", "i", "l">>, << >>}
TimeHorizons ==
    {<<"l", "o", "n", "g">>, <<"L", "o", "n", "g", " ", "t", "e", "r", "m">>, <<"s", "h", "o", "r", "t">>, <<"S", "H", "O", "R", "T">>,
     <<"s", "h", "o", "r", "t", " ", "t", "o", " ", "l", "o", "n", "g">>, <<"l", "o", "n", "g", " ", "o", "r", " ", "s", "h", "o", "r", "t">>, <<"m", "e", "d", "i", "u", "m">>, << >>}

\* lines 525-566: the templates in the order of the dict, with the name line
\* 589 makes of each key
black_swan_templates ==
    << [event_name |-> "pandemic", title |-> "Pandemic", probability |-> Rat(5, 100)],
       [event_name |-> "financial_crisis", title |-> "Financial Crisis", probability |-> Rat(1, 10)],
       [event_name |-> "cyber_attack", title |-> "Cyber Attack", probability |-> Rat(15, 100)],
       [event_name |-> "regulatory_shock", title |-> "Regulatory Shock", probability |-> Rat(2, 10)] >>

\* lines 575-580
IndustryFactor(industry, event_name) ==
    CASE Lower(industry) = <<"t", "e", "c", "h", "n", "o", "l", "o", "g", "y">> /\ event_name = "cyber_attack" -> RInt(2)
      [] Lower(industry) = <<"h", "e", "a", "l", "t", "h", "c", "a", "r", "e">> /\ event_name = "pandemic" -> Rat(3, 2)
      [] Lower(industry) = <<"f", "i", "n", "a", "n", "c", "i", "a", "l">> /\ event_name = "financial_crisis" -> Rat(3, 2)
      [] OTHER -> RInt(1)

HorizonFactorShortFirst(time_horizon) ==
    IF HasSubstring(<<"s", "h", "o", "r", "t">>, Lower(time_horizon)) THEN Rat(1, 2)
    ELSE IF HasSubstring(<<"l", "o", "n", "g">>, Lower(time_horizon)) THEN Rat(3, 2)
    ELSE RInt(1)

\* lines 583-586
HorizonFactor(time_horizon) ==
    IF HasSubstring(<<"l", "o", "n", "g">>, Lower(time_horizon)) THEN Rat(3, 2)
    ELSE IF HasSubstring(<<"s", "h", "o", "r", "t">>, Lower(time_horizon)) THEN Rat(1, 2)
    ELSE RInt(1)

\* lines 588-606: the ScenarioAnalysis of one template
BlackSwanScenario(template, adjusted_probability) ==
    [scenario_name |-> <<"Black Swan: ", template.title>>,
     scenario_type |-> "black_swan",
     outcomes |-> [probability |-> adjusted_probability,
                   severity |-> Rat(8, 10), impact_score |-> Rat(9, 10)],
     probability |-> adjusted_probability]

\* lines 508-611.  The ScenarioAnalysis constructor (line 104) takes a
\* probability in [0, 1] only.
identify_black_swan_scenarios(industry, time_horizon) ==
    LET scenarios ==
            [i \in DOMAIN black_swan_templates |->
                BlackSwanScenario(black_swan_templates[i],
                    RMul(RMul(black_swan_templates[i].probability,
                              IndustryFactor(industry, black_swan_templates[i].event_name)),
                         HorizonFactor(time_horizon)))]
    IN  IF \E i \in DOMAIN scenarios :
              RLt(scenarios[i].probability, RInt(0)) \/ RLt(RInt(1), scenarios[i].probability)
        THEN [outcome |-> "ValueError", value |-> None, objective_calls |-> 0]
        ELSE [outcome |-> "ok", value |-> scenarios, objective_calls |-> 0]

BlackSwanScenarios(t) ==
    /\ calls[t] = NoCall
    /\ \E industry \in Industries, time_horizon \in TimeHorizons :
          calls' = [calls EXCEPT ![t] =
                      RiskCall("black_swan",
                               [industry |-> industry, time_horizon |-> time_horizon],
                               identify_black_swan_scenarios(industry, time_horizon))]
    /\ UNCHANGED <<rng, frames, fin, app>>

\* The results of a run are what the caller's objective function returns:
\* any list of numbers.  The histograms of the lists of MinIterations
\* results with at most three distinct values, few or many of them low.
ResultValues == {s \in OutDom \X OutDom \X OutDom : s[1] < s[2] /\ s[2] < s[3]}
ResultHistograms ==
    {[v \in OutDom |-> CASE v = s[1] -> few
                         [] v = s[2] -> some
                         [] v = s[3] -> MinIterations - few - some
                         [] OTHER -> 0] :
        s \in ResultValues, few \in {0, 10, 50}, some \in {0, 45, 500}}

\* one call of run_monte_carlo_simulation with iterations = MinIterations
\* and an objective function whose results have the histogram h: lines
\* 239-278 summarise them
SimulateObjective(t) ==
    /\ calls[t] = NoCall
    /\ \E h \in ResultHistograms :
          calls' = [calls EXCEPT ![t] =
                      RiskCall("simulate", [iterations |-> MinIterations, results |-> h],
                               [outcome |-> "ok", value |-> MonteCarloResult(MinIterations, h),
                                objective_calls |-> MinIterations])]
    /\ UNCHANGED <<rng, frames, fin, app>>

NextRisk ==
    \/ BlackSwanScenarios(PureCaller)
    \/ SimulateObjective(PureCaller)
    \/ ScenarioAnalysis(PureCaller)
    \/ ConstructRiskVariable(PureCaller)
    \/ SampleRiskVariable(PureCaller)
    \/ RiskMetrics(PureCaller)
    \/ Sensitivity(PureCaller)

SpecRisk == InitRisk /\ [][NextRisk]_vars

(***************************************************************************)
(* financial_calculator.py.  Cash flows are integers, a discount rate is a *)
(* rational, a result is an exact rational.                                *)
(***************************************************************************)
MaxPeriods == 3    \* the enumerated cash-flow series have at most this many periods

CashFlowValues == {-2, -1, 0, 1, 2}
BoundedSeries == UNION {[1..n -> CashFlowValues] : n \in 0..MaxPeriods}
\* the series of the payback scenario of the specification
PaybackExample == <<-100000, 25000, 25000, 25000, 25000>>
\* single-outflow/single-inflow series [-A, B] with B > A > 0: the series of
\* test_irr_single_cash_flow and three more
SingleFlowExamples == {<<-100000, 150000>>, <<-2, 5>>, <<-1, 3>>, <<-1, 10000000>>}
\* -100%, -50%, 0, 10%, 50%
Rates == {<<-1, 1>>, <<-1, 2>>, <<0, 1>>, <<1, 10>>, <<1, 2>>}

Raised(e) == [outcome |-> e, value |-> None]
Returns(v) == [outcome |-> "ok", value |-> v]
\* float('inf')
Infinity == "inf"

\* cf / ((1 + discount_rate) ** i); the caller has excluded a zero divisor
Discounted(cf, discount_rate, i) ==
    RDiv(RInt(cf), RPow(RAdd(RInt(1), discount_rate), i))

\* dividing by (1 + discount_rate) ** i raises ZeroDivisionError when the
\* power is 0.0, which it is for discount_rate = -1 and i >= 1
DivisorIsZero(discount_rate, i) == RAdd(RInt(1), discount_rate)[1] = 0 /\ i >= 1

RECURSIVE PresentValue(_, _, _)
\* the sum of cash_flows[i] / (1 + discount_rate) ** i over the periods
\* i = first .. len - 1 (cash_flows[i] of the code is cash_flows[i + 1] here)
PresentValue(cash_flows, discount_rate, first) ==
    IF first > Len(cash_flows) - 1 THEN RInt(0)
    ELSE RAdd(Discounted(cash_flows[first + 1], discount_rate, first),
              PresentValue(cash_flows, discount_rate, first + 1))

\* calculate_npv that leaves the period-0 flow out of the sum
calculate_npv_without_period_0(cash_flows, discount_rate) ==
    IF Len(cash_flows) = 0 THEN Raised("ValueError")
    ELSE IF DivisorIsZero(discount_rate, Len(cash_flows) - 1) THEN Raised("ZeroDivisionError")
    ELSE Returns(PresentValue(cash_flows, discount_rate, 1))

\* lines 91-109
calculate_npv(cash_flows, discount_rate) ==
    IF Len(cash_flows) = 0 THEN Raised("ValueError")
    ELSE IF DivisorIsZero(discount_rate, Len(cash_flows) - 1) THEN Raised("ZeroDivisionError")
    ELSE Returns(PresentValue(cash_flows, discount_rate, 0))

\* calculate_profitability_index without lines 223-224: the division by a
\* zero initial investment raises
calculate_profitability_index_unguarded(cash_flows, discount_rate) ==
    IF Len(cash_flows) = 0 THEN Returns(RInt(0))
    ELSE LET initial_investment == Abs(cash_flows[1])
         IN  IF DivisorIsZero(discount_rate, Len(cash_flows) - 1) \/ initial_investment = 0
             THEN Raised("ZeroDivisionError")
             ELSE Returns(RDiv(PresentValue(cash_flows, discount_rate, 1),
                               RInt(initial_investment)))

\* calculate_profitability_index whose present value includes period 0
calculate_profitability_index_all_periods(cash_flows, discount_rate) ==
    IF Len(cash_flows) = 0 THEN Returns(RInt(0))
    ELSE LET initial_investment == Abs(cash_flows[1])
         IN  IF initial_investment = 0 THEN Returns(Infinity)
             ELSE IF DivisorIsZero(discount_rate, Len(cash_flows) - 1)
                  THEN Raised("ZeroDivisionError")
             ELSE Returns(RDiv(PresentValue(cash_flows, discount_rate, 0),
                               RInt(initial_investment)))

\* lines 208-228
calculate_profitability_index(cash_flows, discount_rate) ==
    IF Len(cash_flows) = 0 THEN Returns(RInt(0))
    ELSE LET initial_investment == Abs(cash_flows[1])
         IN  IF initial_investment = 0 THEN Returns(Infinity)
             ELSE IF DivisorIsZero(discount_rate, Len(cash_flows) - 1)
                  THEN Raised("ZeroDivisionError")
             ELSE Returns(RDiv(PresentValue(cash_flows, discount_rate, 1),
                               RInt(initial_investment)))

RECURSIVE PaybackFromWholePeriods(_, _, _)
\* PaybackFrom without the interpolation of lines 172-173
PaybackFromWholePeriods(cash_flows, i, cumulative) ==
    IF i > Len(cash_flows) - 1 THEN Returns(None)
    ELSE LET c == cumulative + cash_flows[i + 1]
         IN  IF c >= 0 THEN Returns(Some(RInt(i)))
             ELSE PaybackFromWholePeriods(cash_flows, i + 1, c)

RECURSIVE PaybackFrom(_, _, _)
\* lines 165-175: the loop from period i on, cumulative being the sum of the
\* periods before i
PaybackFrom(cash_flows, i, cumulative) ==
    IF i > Len(cash_flows) - 1 THEN Returns(None)
    ELSE LET cf == cash_flows[i + 1]
             c == cumulative + cf
         IN  IF c >= 0
             THEN IF i = 0 THEN Returns(Some(RInt(0)))
                  ELSE IF cf # 0
                       THEN Returns(Some(RAdd(RInt(i - 1), Rat(c - cf, -cf))))
                       ELSE Returns(Some(RInt(i)))
             ELSE PaybackFrom(cash_flows, i + 1, c)

\* lines 151-175
calculate_payback_period(cash_flows) ==
    IF Len(cash_flows) = 0 THEN Returns(None)
    ELSE PaybackFrom(cash_flows, 0, 0)

RECURSIVE DiscountedPaybackFrom(_, _, _, _)
\* lines 193-205
DiscountedPaybackFrom(cash_flows, discount_rate, i, cumulative) ==
    IF i > Len(cash_flows) - 1 THEN Returns(None)
    ELSE IF DivisorIsZero(discount_rate, i) THEN Raised("ZeroDivisionError")
    ELSE LET discounted_cf == Discounted(cash_flows[i + 1], discount_rate, i)
             c == RAdd(cumulative, discounted_cf)
         IN  IF RLe(RInt(0), c)
             THEN IF i = 0 THEN Returns(Some(RInt(0)))
                  ELSE IF discounted_cf[1] # 0
                       THEN Returns(Some(RAdd(RInt(i - 1),
                                RDiv(RSub(c, discounted_cf), RNeg(discounted_cf)))))
                       ELSE Returns(Some(RInt(i)))
             ELSE DiscountedPaybackFrom(cash_flows, discount_rate, i + 1, c)

\* lines 178-205
calculate_discounted_payback(cash_flows, discount_rate) ==
    IF Len(cash_flows) = 0 THEN Returns(None)
    ELSE DiscountedPaybackFrom(cash_flows, discount_rate, 0, RInt(0))

(***************************************************************************)
(* calculate_irr (lines 112-148).  The Newton iteration runs on floats.  A *)
(* float is modelled as a decimal floating-point number <<m, e>> of value  *)
(* m * 10^e: m = 0 and e = 0, or m has exactly FloatDigits digits.  Every  *)
(* operation rounds its exact result to the nearest such number, as IEEE   *)
(* arithmetic does with 53 binary digits.                                  *)
(***************************************************************************)
FloatDigits == 4

\* n / d rounded to the nearest integer (d # 0)
RoundDiv(n, d) ==
    LET q == (2 * Abs(n) + Abs(d)) \div (2 * Abs(d))
    IN  IF (n < 0) = (d < 0) THEN q ELSE -q

RECURSIVE DigitCount(_)
DigitCount(n) == IF n < 10 THEN 1 ELSE 1 + DigitCount(n \div 10)

RECURSIVE Normalize(_, _)
\* the float nearest to m * 10^e
Normalize(m, e) ==
    IF m = 0 THEN <<0, 0>>
    ELSE IF Abs(m) >= 10 ^ FloatDigits
    THEN LET k == DigitCount(Abs(m)) - FloatDigits
         IN  Normalize(RoundDiv(m, 10 ^ k), e + k)
    ELSE IF Abs(m) < 10 ^ (FloatDigits - 1) THEN Normalize(m * 10, e - 1)
    ELSE <<m, e>>

FInt(k) == Normalize(k, 0)
FNeg(a) == <<-a[1], a[2]>>
FAbs(a) == <<Abs(a[1]), a[2]>>
FMul(a, b) == Normalize(a[1] * b[1], a[2] + b[2])
\* a / b for b # 0: the quotient of the mantissas lies in (1/10, 10)
FDiv(a, b) ==
    LET k == IF Abs(a[1]) >= Abs(b[1]) THEN FloatDigits - 1 ELSE FloatDigits
    IN  Normalize(RoundDiv(a[1] * 10 ^ k, b[1]), a[2] - b[2] - k)
\* a + b: a term below half a unit in the last place of the other is lost
FAdd(a, b) ==
    IF a[1] = 0 THEN b
    ELSE IF b[1] = 0 THEN a
    ELSE IF a[2] - b[2] > FloatDigits THEN a
    ELSE IF b[2] - a[2] > FloatDigits THEN b
    ELSE IF a[2] >= b[2] THEN Normalize(a[1] * 10 ^ (a[2] - b[2]) + b[1], b[2])
    ELSE Normalize(a[1] + b[1] * 10 ^ (b[2] - a[2]), a[2])
FLt(a, b) == FAdd(a, FNeg(b))[1] < 0

RECURSIVE FPow(_, _)
FPow(a, e) == IF e = 0 THEN FInt(1) ELSE FMul(FPow(a, e - 1), a)

\* line 128: tolerance = 1e-6
Tolerance == Normalize(1, -6)
\* lines 133, 139 and 148: abs(v) < tolerance
BelowTolerance(v) == FLt(FAbs(v), Tolerance)

RECURSIVE IrrNpv(_, _, _)
\* line 131: sum(cf / ((1 + rate) ** i)) over the first n cash flows, added
\* from left to right
IrrNpv(cash_flows, rate, n) ==
    IF n = 0 THEN FInt(0)
    ELSE FAdd(IrrNpv(cash_flows, rate, n - 1),
              FDiv(FInt(cash_flows[n]), FPow(FAdd(FInt(1), rate), n - 1)))

RECURSIVE IrrDerivative(_, _, _)
\* line 137: sum(-i * cf / ((1 + rate) ** (i + 1))) over the first n cash
\* flows
IrrDerivative(cash_flows, rate, n) ==
    IF n = 0 THEN FInt(0)
    ELSE FAdd(IrrDerivative(cash_flows, rate, n - 1),
              FDiv(FInt((-(n - 1)) * cash_flows[n]), FPow(FAdd(FInt(1), rate), n)))

\* The locals of the loop: rate, npv (None until line 131 has bound it), and
\* where control is: "run" in the loop, "returned" by line 134, "break" by
\* line 140.
IrrStates ==
    [rate : Int \X Int, npv : Seq(Int \X Int), status : {"run", "returned", "break"}]

\* lines 142-146: the Newton step, kept at -0.99 or above
NewtonStep(rate, npv, derivative) ==
    LET next == FAdd(rate, FNeg(FDiv(npv, derivative)))
    IN  IF FLt(next, Normalize(-99, -2)) THEN Normalize(-99, -2) ELSE next

\* lines 131-146: one pass of the loop, npv and derivative being the sums of
\* lines 131 and 137
IrrPass(st, npv, derivative) ==
    IF BelowTolerance(npv) THEN [st EXCEPT !.npv = Some(npv), !.status = "returned"]
    ELSE IF BelowTolerance(derivative) THEN [st EXCEPT !.npv = Some(npv), !.status = "break"]
    ELSE [st EXCEPT !.npv = Some(npv), !.rate = NewtonStep(st.rate, npv, derivative)]

IrrStep(cash_flows, st) ==
    IF st.status # "run" THEN st
    ELSE IrrPass(st, IrrNpv(cash_flows, st.rate, Len(cash_flows)),
                 IrrDerivative(cash_flows, st.rate, Len(cash_flows)))

\* n passes of the loop (n passes are n1 passes followed by n - n1 passes)
IrrLoop[n \in Nat, cash_flows \in Seq(Int), st \in IrrStates] ==
    IF n = 0 THEN st
    ELSE IF n = 1 THEN IrrStep(cash_flows, st)
    ELSE IrrLoop[n - (n \div 2), cash_flows, IrrLoop[n \div 2, cash_flows, st]]

\* line 148, st being the locals the loop has left.  With max_iterations <= 0
\* the loop body never runs and line 148 reads npv, which no statement has
\* bound.
IrrResult(st) ==
    CASE st.status = "returned" -> Returns(Some(st.rate))
      [] st.npv = None -> Raised("UnboundLocalError")
      [] OTHER -> Returns(IF BelowTolerance(st.npv[1]) THEN Some(st.rate) ELSE None)

\* lines 112-148; line 127: rate = 0.1
calculate_irr(cash_flows, max_iterations) ==
    IF Len(cash_flows) < 2 THEN Returns(None)
    ELSE IrrResult(IrrLoop[TrialCount(max_iterations), cash_flows,
                           [rate |-> Normalize(1, -1), npv |-> None, status |-> "run"]])

\* line 112: max_iterations: int = 100
DefaultMaxIterations == 100

\* lines 231-265.  calculate_irr is called with its default max_iterations.
\* The first call that raises ends the analysis; the CashFlowAnalysis
\* validator (lines 26-31) rejects only an empty series, which calculate_npv
\* has rejected before.
perform_cash_flow_analysis(cash_flows, discount_rate) ==
    LET npv == calculate_npv(cash_flows, discount_rate)
        irr == calculate_irr(cash_flows, DefaultMaxIterations)
        payback == calculate_payback_period(cash_flows)
        discounted_payback == calculate_discounted_payback(cash_flows, discount_rate)
        pi == calculate_profitability_index(cash_flows, discount_rate)
    IN  CASE npv.outcome # "ok" -> Raised(npv.outcome)
          [] irr.outcome # "ok" -> Raised(irr.outcome)
          [] payback.outcome # "ok" -> Raised(payback.outcome)
          [] discounted_payback.outcome # "ok" -> Raised(discounted_payback.outcome)
          [] pi.outcome # "ok" -> Raised(pi.outcome)
          [] OTHER ->
                Returns([periods |-> [k \in 1..Len(cash_flows) |-> k - 1],
                         cash_flows |-> cash_flows,
                         discount_rate |-> discount_rate,
                         npv |-> npv.value,
                         irr |-> irr.value,
                         payback_period |-> payback.value,
                         discounted_payback |-> discounted_payback.value,
                         profitability_index |-> pi.value])

(***************************************************************************)
(* break_even_analysis (lines 426-456)                                     *)
(***************************************************************************)
MaxUnitAmount == 2    \* unit prices and unit costs lie in -1..MaxUnitAmount

\* the break-even scenario of the tests (fixed 50000, variable 10, price 25)
BreakEvenExample ==
    [fixed_costs |-> 50000, variable_cost_per_unit |-> 10, price_per_unit |-> 25]
BreakEvenInputs ==
    [fixed_costs : {-1, 0, 1, 3},
     variable_cost_per_unit : (-1)..MaxUnitAmount,
     price_per_unit : (-1)..MaxUnitAmount] \cup {BreakEvenExample}

\* lines 441-456; the divisions are at lines 445, 452 and 453
break_even_analysis(fixed_costs, variable_cost_per_unit, price_per_unit) ==
    IF price_per_unit <= variable_cost_per_unit THEN Raised("ValueError")
    ELSE LET contribution_margin == price_per_unit - variable_cost_per_unit
             break_even_units == Rat(fixed_costs, contribution_margin)
             break_even_revenue == RMul(break_even_units, RInt(price_per_unit))
         IN  IF price_per_unit = 0 THEN Raised("ZeroDivisionError")
             ELSE Returns(
                [break_even_units |-> break_even_units,
                 break_even_revenue |-> break_even_revenue,
                 contribution_margin |-> RInt(contribution_margin),
                 contribution_margin_ratio |-> Rat(contribution_margin, price_per_unit),
                 operating_leverage |->
                     IF contribution_margin > fixed_costs
                     THEN Rat(contribution_margin, contribution_margin - fixed_costs)
                     ELSE Infinity])

(***************************************************************************)
(* calculate_financial_ratios (lines 315-368) and the FinancialRatios      *)
(* model it builds (lines 51-69)                                           *)
(***************************************************************************)
\* equity, assets, debt, current_assets, current_liabilities: each optional
BalanceSheets ==
    {[equity |-> None, assets |-> None, debt |-> None,
      current_assets |-> None, current_liabilities |-> None],
     [equity |-> Some(0), assets |-> Some(4), debt |-> Some(1),
      current_assets |-> None, current_liabilities |-> Some(2)],
     [equity |-> Some(2), assets |-> Some(0), debt |-> None,
      current_assets |-> Some(3), current_liabilities |-> Some(0)],
     [equity |-> Some(2), assets |-> Some(4), debt |-> Some(1),
      current_assets |-> Some(3), current_liabilities |-> Some(2)]}
RatioInputs ==
    [revenue : (-1)..MaxUnitAmount,
     cost_of_goods_sold : 0..(MaxUnitAmount + 1),
     operating_expenses : 0..1,
     interest_expense : 0..1,
     tax_rate : {RInt(0), Rat(1, 2)},
     balance : BalanceSheets]

\* lines 64-69
validate_margins(v) == ~(RLt(v, RInt(-100)) \/ RLt(RInt(100), v))

\* "x and x > 0" of lines 349-352
Positive(x) == x # None /\ x[1] > 0

\* lines 341-368
calculate_financial_ratios(inp) ==
    LET revenue == inp.revenue
        b == inp.balance
        gross_profit == revenue - inp.cost_of_goods_sold
        operating_income == gross_profit - inp.operating_expenses
        net_income == RSub(RInt(operating_income - inp.interest_expense),
                           RMul(RInt(operating_income), inp.tax_rate))
        Pct(x) == IF revenue > 0 THEN RMul(RDiv(x, RInt(revenue)), RInt(100)) ELSE RInt(0)
        gross_margin == Pct(RInt(gross_profit))
        operating_margin == Pct(RInt(operating_income))
        net_margin == Pct(net_income)
        roe == IF Positive(b.equity)
               THEN Some(RMul(RDiv(net_income, RInt(b.equity[1])), RInt(100))) ELSE None
        roa == IF Positive(b.assets)
               THEN Some(RMul(RDiv(net_income, RInt(b.assets[1])), RInt(100))) ELSE None
        debt_to_equity == IF Positive(b.equity) /\ b.debt # None
                          THEN Some(Rat(b.debt[1], b.equity[1])) ELSE None
        current_ratio == IF Positive(b.current_liabilities) /\ b.current_assets # None
                         THEN Some(Rat(b.current_assets[1], b.current_liabilities[1]))
                         ELSE None
    IN  IF validate_margins(gross_margin) /\ validate_margins(operating_margin)
           /\ validate_margins(net_margin)
        THEN Returns([revenue |-> revenue,
                      costs |-> inp.cost_of_goods_sold + inp.operating_expenses,
                      gross_margin |-> gross_margin,
                      operating_margin |-> operating_margin,
                      net_margin |-> net_margin,
                      roe |-> roe, roa |-> roa,
                      debt_to_equity |-> debt_to_equity,
                      current_ratio |-> current_ratio])
        ELSE Raised("ValueError")

(***************************************************************************)
(* The calculator as a machine: a request names a cash-flow series; one    *)
(* operation is applied to it, with the arguments the caller chooses.      *)
(***************************************************************************)
MaxIterationChoices == {0, 1, DefaultMaxIterations}

FinCall(op, discount_rate, max_iterations, r) ==
    [op |-> op, cash_flows |-> fin.cash_flows, discount_rate |-> discount_rate,
     max_iterations |-> max_iterations, outcome |-> r.outcome, value |-> r.value]

InitFin ==
    /\ AppNotInUse
    /\ rng = 0
    /\ calls = [t \in Callers |-> NoCall]
    /\ frames = [t \in Callers |-> IdleFrame]
    /\ \E cash_flows \in BoundedSeries \cup {PaybackExample} \cup SingleFlowExamples :
          fin = [op |-> "none", cash_flows |-> cash_flows]

Npv(discount_rate) ==
    /\ fin.op = "none"
    /\ fin' = FinCall("npv", Some(discount_rate), None,
                      calculate_npv(fin.cash_flows, discount_rate))
    /\ UNCHANGED <<rng, calls, frames, app>>

Irr(max_iterations) ==
    /\ fin.op = "none"
    /\ fin' = FinCall("irr", None, Some(max_iterations),
                      calculate_irr(fin.cash_flows, max_iterations))
    /\ UNCHANGED <<rng, calls, frames, app>>

PaybackPeriod ==
    /\ fin.op = "none"
    /\ fin' = FinCall("payback", None, None, calculate_payback_period(fin.cash_flows))
    /\ UNCHANGED <<rng, calls, frames, app>>

DiscountedPayback(discount_rate) ==
    /\ fin.op = "none"
    /\ fin' = FinCall("discounted_payback", Some(discount_rate), None,
                      calculate_discounted_payback(fin.cash_flows, discount_rate))
    /\ UNCHANGED <<rng, calls, frames, app>>

ProfitabilityIndex(discount_rate) ==
    /\ fin.op = "none"
    /\ fin' = FinCall("profitability_index", Some(discount_rate), None,
                      calculate_profitability_index(fin.cash_flows, discount_rate))
    /\ UNCHANGED <<rng, calls, frames, app>>

CashFlowAnalysis(discount_rate) ==
    /\ fin.op = "none"
    /\ fin' = FinCall("analysis", Some(discount_rate), Some(DefaultMaxIterations),
                      perform_cash_flow_analysis(fin.cash_flows, discount_rate))
    /\ UNCHANGED <<rng, calls, frames, app>>

\* a call of a function that takes no cash-flow series
FinCallOf(op, args, r) ==
    [op |-> op, args |-> args, outcome |-> r.outcome, value |-> r.value]

BreakEven(inp) ==
    /\ fin.op = "none"
    /\ fin' = FinCallOf("break_even", inp,
                        break_even_analysis(inp.fixed_costs, inp.variable_cost_per_unit,
                                            inp.price_per_unit))
    /\ UNCHANGED <<rng, calls, frames, app>>

FinancialRatios(inp) ==
    /\ fin.op = "none"
    /\ fin' = FinCallOf("financial_ratios", inp, calculate_financial_ratios(inp))
    /\ UNCHANGED <<rng, calls, frames, app>>

NextFin ==
    \/ \E r \in Rates : Npv(r)
    \/ \E m \in MaxIterationChoices : Irr(m)
    \/ PaybackPeriod
    \/ \E r \in Rates : DiscountedPayback(r)
    \/ \E r \in Rates : ProfitabilityIndex(r)
    \/ \E r \in Rates : CashFlowAnalysis(r)
    \/ \E inp \in BreakEvenInputs : BreakEven(inp)
    \/ \E inp \in RatioInputs : FinancialRatios(inp)

SpecFin == InitFin /\ [][NextFin]_vars

(***************************************************************************)
(* Properties of the Monte Carlo operations                                *)
(***************************************************************************)
Simulated(t) == calls[t].op = "simulate"
Assessed(t) == calls[t].op = "assess"
Returned(t) == calls[t].outcome = "ok"

\* C1: a finished simulate call with iterations below MinIterations (999 and
\* 0 included) has raised ValueError, the InvalidArgument class, and a call
\* with iterations = MinIterations has returned a MonteCarloResult.
C1_SimulateRejectsFewIterations ==
    \A t \in Callers :
        Simulated(t) =>
            /\ calls[t].inp.iterations < MinIterations => calls[t].outcome = "ValueError"
            /\ calls[t].inp.iterations = MinIterations =>
                  Returned(t) /\ calls[t].result # None

\* C2: a simulate call with iterations below MinIterations is rejected before
\* any work: it has not called the objective function, has drawn no sample
\* and has not reseeded the generator.
C2_ValidationIsEager ==
    \A t \in Callers :
        (Simulated(t) /\ calls[t].inp.iterations < MinIterations) =>
            /\ ~Returned(t)
            /\ calls[t].objective_calls = 0
            /\ calls[t].samples = 0
            /\ ~calls[t].reseeded

\* C3: two simulate calls that were given the same seed and the same inputs
\* and that both returned, returned the same MonteCarloResult, whatever was
\* drawn from the generator before each of them.
C3_SeededRunsAgree ==
    \A t, u \in Callers :
        (/\ Simulated(t) /\ Simulated(u)
         /\ calls[t].inp = calls[u].inp
         /\ calls[t].inp.random_seed # None
         /\ Returned(t) /\ Returned(u))
        => calls[t].result = calls[u].result

\* both callers have finished a seeded simulate call on the same inputs that
\* returned a result
C3_Witness ==
    /\ Simulated("a") /\ Simulated("b")
    /\ calls["a"].inp = calls["b"].inp
    /\ calls["a"].inp.random_seed # None
    /\ Returned("a") /\ Returned("b")
    /\ calls["a"].result # None

\* what a call on inputs inp returns when nothing else uses the generator
\* while it runs and it finds the generator in state g
AloneResult(g, inp) ==
    (CHOOSE p \in SimulationTable : p.g = g /\ p.inp = inp /\ p.r.outcome = "ok").r.result

\* C4: a seeded simulate call that returned, returned what the same call
\* returns when it runs alone, also when another call ran between its trials.
C4_InterleavedRunsIndependent ==
    \A t \in Callers :
        (Simulated(t) /\ Returned(t) /\ calls[t].inp.random_seed # None)
        => \A g \in RngStates : calls[t].result = AloneResult(g, calls[t].inp)

\* C5: two assess calls with identical inputs that both returned, have the
\* same Monte Carlo result and the same overall_risk_score.
C5_AssessReproducible ==
    \A t, u \in Callers :
        (/\ Assessed(t) /\ Assessed(u)
         /\ calls[t].inp = calls[u].inp
         /\ Returned(t) /\ Returned(u))
        => /\ calls[t].assessment[1].monte_carlo_results
                = calls[u].assessment[1].monte_carlo_results
           /\ calls[t].assessment[1].overall_risk_score
                = calls[u].assessment[1].overall_risk_score

\* the histogram of an activation counts exactly the objective calls made
FramesConsistent ==
    \A t \in Callers :
        frames[t].pc = "loop" => HCount(frames[t].st.hist) = frames[t].st.objective_calls

(***************************************************************************)
(* Properties of the financial calculator                                  *)
(***************************************************************************)
RECURSIVE SumSeq(_)
SumSeq(q) == IF q = << >> THEN 0 ELSE Head(q) + SumSeq(Tail(q))
\* the running cumulative sum through period k (periods count from 0)
PrefixSum(q, k) == SumSeq(SubSeq(q, 1, k + 1))
\* the periods whose running cumulative sum is >= 0
RecoveredPeriods(q) == {k \in 0..(Len(q) - 1) : PrefixSum(q, k) >= 0}
FirstRecovered(q) == CHOOSE k \in RecoveredPeriods(q) : \A j \in RecoveredPeriods(q) : k <= j

\* C6: a finished npv call whose discount rate is negative has raised
\* ValueError; it has not returned a number.
C6_NpvRejectsNegativeRate ==
    (fin.op = "npv" /\ RLt(fin.discount_rate[1], RInt(0))) => fin.outcome = "ValueError"

\* C7: npv of a non-empty series at discount rate 0 returns the arithmetic
\* sum of the series.
C7_NpvAtZeroRateIsSum ==
    (fin.op = "npv" /\ fin.discount_rate = Some(RInt(0)) /\ Len(fin.cash_flows) > 0)
    => fin.outcome = "ok" /\ fin.value = RInt(SumSeq(fin.cash_flows))

\* npv at rate 0 has returned for a series of several periods with a nonzero sum
C7_Witness ==
    /\ fin.op = "npv" /\ fin.discount_rate = Some(RInt(0))
    /\ Len(fin.cash_flows) >= 2 /\ fin.outcome = "ok"
    /\ fin.value # RInt(0) /\ fin.value # RInt(fin.cash_flows[1])

\* C8: for a series whose period-0 flow is negative and a positive discount
\* rate, the profitability index and the npv of one analysis satisfy
\* profitability index > 1 exactly when npv > 0.
C8_ProfitabilityIndexAgreesWithNpv ==
    (/\ fin.op = "analysis" /\ fin.outcome = "ok"
     /\ fin.cash_flows[1] < 0
     /\ RLt(RInt(0), fin.discount_rate[1]))
    => (RLt(RInt(1), fin.value.profitability_index) <=> RLt(RInt(0), fin.value.npv))

\* an analysis of a series with an initial outflow at a positive rate whose
\* profitability index exceeds 1
C8_Witness ==
    /\ fin.op = "analysis" /\ fin.outcome = "ok"
    /\ fin.cash_flows[1] < 0
    /\ RLt(RInt(0), fin.discount_rate[1])
    /\ RLt(RInt(1), fin.value.profitability_index)

\* C9: irr never raises, for every max_iterations >= 0: it returns None for
\* fewer than 2 cash flows, and a rate it returns has |NPV(rate)| below the
\* tolerance.
C9_IrrNeverRaises ==
    fin.op = "irr" =>
        /\ fin.outcome = "ok"
        /\ Len(fin.cash_flows) < 2 => fin.value = None
        /\ fin.value # None =>
              BelowTolerance(IrrNpv(fin.cash_flows, fin.value[1], Len(fin.cash_flows)))

C12_BreakEven ==
    fin.op = "break_even" =>
        IF fin.args.price_per_unit <= fin.args.variable_cost_per_unit
        THEN fin.outcome = "ValueError"
        ELSE /\ fin.outcome = "ok"
             /\ fin.value.break_even_units
                  = Rat(fin.args.fixed_costs,
                        fin.args.price_per_unit - fin.args.variable_cost_per_unit)
             /\ fin.value.break_even_revenue
                  = RMul(fin.value.break_even_units, RInt(fin.args.price_per_unit))

\* C13: every financial-ratios call, also one whose raw margin falls outside
\* [-100, 100], has returned ratios whose gross, operating and net margin
\* each lie within [-100, 100].
C13_MarginsClamped ==
    fin.op = "financial_ratios" =>
        /\ fin.outcome = "ok"
        /\ \A v \in {fin.value.gross_margin, fin.value.operating_margin, fin.value.net_margin} :
              RLe(RInt(-100), v) /\ RLe(v, RInt(100))

RequiredKeys(distribution) ==
    CASE distribution = "normal" -> {"mean", "std"}
      [] distribution = "uniform" -> {"min", "max"}
      [] distribution = "triangular" -> {"min", "mode", "max"}
      [] distribution = "beta" -> {"alpha", "beta"}
      [] distribution = "exponential" -> {"scale"}
      [] distribution = "lognormal" -> {"mean", "sigma"}

\* C15: constructing a RiskVariable whose parameters lack a key its
\* distribution kind requires has failed, for every kind; and sampling a
\* constructed RiskVariable has not failed for a missing parameter.
C15_ConstructionChecksParameters ==
    \A t \in Callers :
        /\ (/\ calls[t].op = "construct"
            /\ ~(RequiredKeys(calls[t].inp.distribution)
                    \subseteq DOMAIN calls[t].inp.parameters))
           => calls[t].outcome = "ValueError"
        /\ calls[t].op = "sample" => calls[t].outcome # "KeyError"

\* a series whose every entry exceeds the one before it
Increasing(data) == \A i \in 1..(Len(data) - 1) : data[i] < data[i + 1]

\* C16: the metrics of a non-empty monotonically increasing series (one that
\* starts at zero, passes through zero or has negative entries included)
\* hold a Maximum Drawdown metric whose value is exactly 0.
C16_IncreasingSeriesHasNoDrawdown ==
    \A t \in Callers :
        (/\ calls[t].op = "risk_metrics"
         /\ Len(calls[t].inp.historical_data) > 0
         /\ Increasing(calls[t].inp.historical_data))
        => /\ calls[t].outcome = "ok"
           /\ \E i \in DOMAIN calls[t].value :
                 /\ calls[t].value[i].metric_name = "Maximum Drawdown"
                 /\ calls[t].value[i].value = Num(RInt(0))

\* base overlaid with the overrides: the override wins on a colliding key,
\* a base key that is not overridden is kept
Overlaid(base, overrides) ==
    [k \in DOMAIN base \cup DOMAIN overrides |->
        IF k \in DOMAIN overrides THEN overrides[k] ELSE base[k]]
OverridesOf(item) ==
    IF "assumptions" \in DOMAIN item.def THEN item.def.assumptions ELSE [k \in {} |-> 0]

\* C20: a scenario analysis that returned holds one ScenarioAnalysis per
\* scenario definition, in definition order; the assumptions of each are the
\* base assumptions overlaid with that scenario's overrides; the outcome
\* calculator was called once per scenario, on that merged map; and each
\* result is what analysing its definition alone returns.
C20_ScenarioAnalysisIsAMap ==
    \A t \in Callers :
        (calls[t].op = "scenario" /\ calls[t].outcome = "ok") =>
            LET base == calls[t].inp.base_case_assumptions
                defs == calls[t].inp.scenario_definitions
                res == calls[t].value
            IN  /\ Len(res) = Len(defs)
                /\ calls[t].objective_calls = Len(defs)
                /\ \A i \in 1..Len(defs) :
                      /\ res[i].scenario_name = defs[i].name
                      /\ res[i].assumptions = Overlaid(base, OverridesOf(defs[i]))
                      /\ res[i].outcomes = outcome_calculator(Overlaid(base, OverridesOf(defs[i])))
                      /\ <<res[i]>> = perform_scenario_analysis(base, <<defs[i]>>).value

\* an analysis of two scenarios has returned: one override collides with a
\* base key, the other adds a key and leaves a base key alone
C20_Witness ==
    \E t \in Callers :
        /\ calls[t].op = "scenario" /\ calls[t].outcome = "ok"
        /\ Len(calls[t].value) = 2
        /\ calls[t].inp.base_case_assumptions = [revenue |-> 2, cost |-> 1]
        /\ calls[t].value[1].assumptions = [revenue |-> 0, cost |-> 1]
        /\ calls[t].value[2].assumptions = [revenue |-> 3, cost |-> 1, price |-> 1]

(***************************************************************************)
(* Properties of perform_comprehensive_risk_assessment                     *)
(***************************************************************************)
\* the assessment a call returned
AssessmentOf(t) == calls[t].assessment[1]

\* the three signals of an assessment, read off its own parts, and their mean
SignalMean(a) ==
    LET mc == a.monte_carlo_results[1]
        n == Len(a.scenario_analyses)
        worst == {i \in 1..n : a.scenario_analyses[i].scenario_type = "worst_case"}
        first == mc.probability_negative
        second == IF mc.mean = RInt(0) THEN RInt(0)
                  ELSE RDiv(RAbs(mc.var_95), RAbs(mc.mean))
        third == IF n = 0 THEN RInt(0) ELSE Rat(Cardinality(worst), n)
    IN  RDiv(RAdd(RAdd(first, second), third), RInt(3))

\* C17 as stated: the overall_risk_score of every assessment returned is
\* exactly the mean of the three signals.
C17_ScoreIsMeanOfSignals ==
    \A t \in Callers :
        (Assessed(t) /\ Returned(t)) =>
            AssessmentOf(t).overall_risk_score = SignalMean(AssessmentOf(t))

\* C17, amended: the overall_risk_score of every assessment returned is the
\* mean of the three signals where that is at most 1, and 1 where it is more.
C17_ScoreIsCappedMeanOfSignals ==
    \A t \in Callers :
        (Assessed(t) /\ Returned(t)) =>
            AssessmentOf(t).overall_risk_score
                = RMin(SignalMean(AssessmentOf(t)), RInt(1))

\* an assessment with a worst-case scenario among others has returned, and
\* the mean of its signals is more than 1
C17_Witness ==
    \E t \in Callers :
        /\ Assessed(t) /\ Returned(t)
        /\ Len(AssessmentOf(t).scenario_analyses) = 2
        /\ AssessmentOf(t).scenario_analyses[1].scenario_type = "worst_case"
        /\ AssessmentOf(t).scenario_analyses[2].scenario_type # "worst_case"
        /\ RLt(RInt(1), SignalMean(AssessmentOf(t)))

\* C18: the overall_risk_score of every assessment returned lies in [0, 1].
C18_ScoreInUnitInterval ==
    \A t \in Callers :
        (Assessed(t) /\ Returned(t)) =>
            /\ RLe(RInt(0), AssessmentOf(t).overall_risk_score)
            /\ RLe(AssessmentOf(t).overall_risk_score, RInt(1))

\* an assessment has returned with score 1 whose second signal alone,
\* |VaR95| / |mean|, is more than 3
C18_Witness ==
    \E t \in Callers :
        /\ Assessed(t) /\ Returned(t)
        /\ AssessmentOf(t).overall_risk_score = RInt(1)
        /\ AssessmentOf(t).monte_carlo_results[1].mean # RInt(0)
        /\ RLt(RInt(3), RDiv(RAbs(AssessmentOf(t).monte_carlo_results[1].var_95),
                             RAbs(AssessmentOf(t).monte_carlo_results[1].mean)))

Contains(q, x) == \E i \in DOMAIN q : q[i] = x

SingleFlowIrrCall ==
    /\ fin.op = "irr" /\ fin.max_iterations = Some(DefaultMaxIterations)
    /\ Len(fin.cash_flows) = 2
    /\ 0 < -fin.cash_flows[1] /\ -fin.cash_flows[1] < fin.cash_flows[2]

\* abs(rate - (B / A - 1)) < 0.01, the closeness test_irr_single_cash_flow
\* asks for
NearSingleFlowRate(rate, cash_flows) ==
    FLt(FAbs(FAdd(rate, FNeg(FAdd(FDiv(FInt(cash_flows[2]), FInt(-cash_flows[1])), FInt(-1))))),
        Normalize(1, -2))

\* C21: for a series [-A, B] with B > A > 0, irr with the default
\* max_iterations returns a rate, not None, and the rate is B / A - 1 within
\* tolerance.
C21_SingleFlowIrr ==
    SingleFlowIrrCall =>
        /\ fin.outcome = "ok" /\ fin.value # None
        /\ NearSingleFlowRate(fin.value[1], fin.cash_flows)

(***************************************************************************)
(* The chat session of src/app.py.  A user message is kept by what the     *)
(* handlers read in it: whether its lower-cased content contains "yes" or  *)
(* "proceed", and the text after the colon of its "title:", "description:" *)
(* and "timeline:" lines ("" or some text "x"; None without such a line),  *)
(* and whether it has an "option" line.  decision_data is kept by the keys *)
(* is_decision_complete reads.                                             *)
(***************************************************************************)
Texts == {None, Some(""), Some("x")}

Messages ==
    [confirms : BOOLEAN, title : Texts, description : Texts, timeline : Texts,
     option : BOOLEAN, content : {"x"}]
        \cup {[confirms |-> FALSE, title |-> None, description |-> None,
               timeline |-> None, option |-> FALSE, content |-> ""]}

\* lines 75 and 216: decision_data = {}
EmptyDecisionData ==
    [title |-> None, description |-> None, timeline |-> None, options |-> FALSE]

\* how a call of run_decision_analysis_flow (lines 402-434) ends: the state
\* is set to "completed" (line 430), the input is found invalid (lines
\* 417-423), or a call raises
FlowOutcomes == {"completed", "invalid", "raised"}

\* bool(v) of an optional string
Truthy(v) == v # None /\ v # Some("")

\* lines 293-326: one line of each kind is read; without a title or a
\* description key the whole content becomes the description
parse_decision_details(message, decision_data) ==
    LET read == [decision_data EXCEPT
                    !.title = IF message.title # None THEN message.title ELSE @,
                    !.description = IF message.description # None THEN message.description ELSE @,
                    !.timeline = IF message.timeline # None THEN message.timeline ELSE @,
                    !.options = @ \/ message.option]
    IN  IF read.title = None /\ read.description = None
        THEN [read EXCEPT !.description = Some(message.content)]
        ELSE read

\* lines 329-345
is_decision_complete(decision_data) ==
    /\ Truthy(decision_data.title) \/ Truthy(decision_data.description)
    /\ Truthy(decision_data.timeline)
    /\ decision_data.options

\* lines 348-373: the summary is sent, then line 369 sets the state
show_decision_summary(s) ==
    [s EXCEPT !.conversation_state = Some("analyzing"),
              !.trace = Append(@, "show_decision_summary")]

\* lines 376-399
ask_for_missing_info(s) == [s EXCEPT !.trace = Append(@, "ask_for_missing_info")]

\* lines 144-163; raw_input and decision_type are keys nothing modelled reads
handle_initial_input(message, s) ==
    [s EXCEPT !.conversation_state = Some("gathering_details"),
              !.trace = Append(@, "handle_initial_input")]

\* lines 175-176: the summary, then the state "confirming"
ConfirmAfter(s) == [s EXCEPT !.conversation_state = Some("confirming")]

\* lines 166-183, parsed being decision_data after line 170
handle_detail_gathering(parsed, s) ==
    LET t == [s EXCEPT !.decision_data = parsed,
                       !.trace = Append(@, "handle_detail_gathering")]
    IN  IF is_decision_complete(parsed) THEN ConfirmAfter(show_decision_summary(t))
        ELSE ask_for_missing_info(t)

\* lines 402-434
run_decision_analysis_flow(flow, s) ==
    LET t == [s EXCEPT !.trace = Append(@, "run_decision_analysis_flow")]
    IN  IF flow = "completed" THEN [t EXCEPT !.conversation_state = Some("completed")]
        ELSE t

\* lines 186-202
handle_analysis_request(message, flow, s) ==
    LET t == [s EXCEPT !.trace = Append(@, "handle_analysis_request")]
    IN  IF message.confirms THEN run_decision_analysis_flow(flow, t)
        ELSE [t EXCEPT !.conversation_state = Some("gathering_details")]

\* lines 205-220
handle_follow_up(s) ==
    [s EXCEPT !.conversation_state = Some("initializing"),
              !.decision_data = EmptyDecisionData,
              !.trace = Append(@, "handle_follow_up")]

\* lines 223-240
handle_general_inquiry(s) == [s EXCEPT !.trace = Append(@, "handle_general_inquiry")]

\* lines 120-133: the route by conversation_state, "initializing" when the
\* session holds none (line 120)
Route(message, flow, conversation_state, s) ==
    CASE conversation_state \in {None, Some("initializing")} -> handle_initial_input(message, s)
      [] conversation_state = Some("gathering_details") ->
            handle_detail_gathering(parse_decision_details(message, s.decision_data), s)
      [] conversation_state = Some("analyzing") -> handle_analysis_request(message, flow, s)
      [] conversation_state = Some("completed") -> handle_follow_up(s)
      [] OTHER -> handle_general_inquiry(s)

\* lines 114-141; an exception of a handler is caught at line 135
handle_message(message, flow, s) ==
    Route(message, flow, s.conversation_state,
          [s EXCEPT !.message = Some(message), !.trace = << >>])

\* the session before on_chat_start
InitChat ==
    /\ rng = 0
    /\ calls = [t \in Callers |-> NoCall]
    /\ frames = [t \in Callers |-> IdleFrame]
    /\ fin = NoFin
    /\ conversation = NotInUse /\ report = NotInUse /\ agent = NotInUse /\ team = NotInUse
    /\ session = [started |-> FALSE, team |-> FALSE, conversation_state |-> None,
                  decision_data |-> EmptyDecisionData, message |-> None, trace |-> << >>]

\* lines 62-111: on_chat_start.  When building the team raises (line 65 or
\* 68) nothing is stored in the session.
StartChat(team_created) ==
    /\ ~session.started
    /\ session' = IF team_created
                  THEN [session EXCEPT !.started = TRUE, !.team = TRUE,
                                       !.conversation_state = Some("initializing")]
                  ELSE [session EXCEPT !.started = TRUE]
    /\ UNCHANGED <<rng, calls, frames, fin, conversation, report, agent, team>>

\* lines 114-141: on_message
HandleMessage(message, flow) ==
    /\ session.started
    /\ session' = handle_message(message, flow, session)
    /\ UNCHANGED <<rng, calls, frames, fin, conversation, report, agent, team>>

NextChat ==
    \/ \E team_created \in BOOLEAN : StartChat(team_created)
    \/ \E message \in Messages, flow \in FlowOutcomes : HandleMessage(message, flow)

SpecChat == InitChat /\ [][NextChat]_vars

(***************************************************************************)
(* Properties of the chat session                                          *)
(***************************************************************************)
\* the last message handled ended with the decision summary shown, the
\* collected decision data being complete
SummaryShown ==
    /\ session.started /\ session.trace # << >>
    /\ session.trace[Len(session.trace)] = "show_decision_summary"
    /\ is_decision_complete(session.decision_data)

Called(s, handler) == \E i \in 1..Len(s.trace) : s.trace[i] = handler

\* C22: once the decision data is complete and the summary has been shown,
\* the next message that contains "yes" or "proceed" is routed to
\* handle_analysis_request and run_decision_analysis_flow (and the state is
\* "completed" when that flow ends normally), and a message without them
\* puts the state back to "gathering_details".
C22_ConfirmationStartsAnalysis ==
    [][(SummaryShown /\ session' # session) =>
          IF session'.message[1].confirms
          THEN /\ Called(session', "handle_analysis_request")
               /\ Called(session', "run_decision_analysis_flow")
          ELSE session'.conversation_state = Some("gathering_details")]_vars

(***************************************************************************)
(* AgentConversation (src/src/models/agent_models.py, lines 203-253).  The *)
(* model has no validate_assignment: a field is assigned without a check,  *)
(* as tests/test_models/test_agent_models.py does (lines 429-434).  A      *)
(* message is kept by its agent_name.                                      *)
(***************************************************************************)
MaxTurns == 3       \* max_turns lies in 1..MaxTurns, turn_count in 0..MaxTurns + 1
MaxMessages == 2    \* at most this many messages are added to a conversation

\* lines 195-200
ConversationStates ==
    {"initializing", "analyzing", "discussing", "converging", "concluded", "error"}
Speakers == {"investor", "legal"}

\* lines 206-216, with the validators of lines 211-212 and 225-230: the
\* conversations the constructor accepts
AgentConversation(state, turn_count, max_turns) ==
    IF turn_count < 0 \/ max_turns < 1 THEN Raised("ValidationError")
    ELSE Returns([state |-> state, messages |-> << >>, current_speaker |-> None,
                  turn_count |-> turn_count, max_turns |-> max_turns])

\* lines 232-241
add_message(self, agent_name) ==
    LET added == [self EXCEPT !.messages = Append(@, agent_name),
                              !.current_speaker = Some(agent_name),
                              !.turn_count = @ + 1]
    IN  IF added.turn_count >= added.max_turns
        THEN [added EXCEPT !.state = "concluded"]
        ELSE added

\* lines 251-253
is_finished(self) == self.state \in {"concluded", "error"}

InitConversation ==
    /\ rng = 0
    /\ calls = [t \in Callers |-> NoCall]
    /\ frames = [t \in Callers |-> IdleFrame]
    /\ fin = NoFin
    /\ session = NotInUse /\ report = NotInUse /\ agent = NotInUse /\ team = NotInUse
    /\ \E state \in ConversationStates, turn_count \in -1..MaxTurns, max_turns \in 0..MaxTurns :
          /\ AgentConversation(state, turn_count, max_turns).outcome = "ok"
          /\ conversation = AgentConversation(state, turn_count, max_turns).value

AddMessage(agent_name) ==
    /\ Len(conversation.messages) < MaxMessages
    /\ conversation.turn_count <= MaxTurns
    /\ conversation' = add_message(conversation, agent_name)
    /\ UNCHANGED <<rng, calls, frames, fin, session, report, agent, team>>

\* conversation.state = state
AssignState(state) ==
    /\ conversation' = [conversation EXCEPT !.state = state]
    /\ UNCHANGED <<rng, calls, frames, fin, session, report, agent, team>>

\* conversation.turn_count = turn_count
AssignTurnCount(turn_count) ==
    /\ conversation' = [conversation EXCEPT !.turn_count = turn_count]
    /\ UNCHANGED <<rng, calls, frames, fin, session, report, agent, team>>

NextConversation ==
    \/ \E agent_name \in Speakers : AddMessage(agent_name)
    \/ \E state \in ConversationStates : AssignState(state)
    \/ \E turn_count \in 0..MaxTurns : AssignTurnCount(turn_count)

SpecConversation == InitConversation /\ [][NextConversation]_vars

(***************************************************************************)
(* Properties of AgentConversation                                         *)
(***************************************************************************)
\* C23: is_finished() is true whenever the state is CONCLUDED or turn_count
\* has reached max_turns, also while the state reads ANALYZING; it is false
\* for an ANALYZING conversation with turn_count < max_turns.
C23_IsFinished ==
    /\ (conversation.state = "concluded" \/ conversation.turn_count >= conversation.max_turns)
          => is_finished(conversation)
    /\ (conversation.state = "analyzing" /\ conversation.turn_count < conversation.max_turns)
          => ~is_finished(conversation)

(***************************************************************************)
(* DecisionAnalysisTeam.analyze_decision (src/src/agents/team.py, lines    *)
(* 154-205) as the steps of one call: the conversation is constructed, the *)
(* messages of the team's stream are processed one at a time, and the      *)
(* conversation is finalized.  The stream yields some number of messages   *)
(* and then ends or raises.                                                *)
(***************************************************************************)
MaxStream == 4    \* the team's stream yields at most this many messages

Streams == [messages : 0..MaxStream, raises : BOOLEAN]

NoConversation == [state |-> "none", messages |-> << >>, current_speaker |-> None, turn_count |-> 0, max_turns |-> 0]

LimitNeverReached(turn_count, max_turns) == FALSE

\* line 264
LimitReached(turn_count, max_turns) == turn_count >= max_turns

\* lines 247-268
process_streaming_message(c) ==
    LET counted == [c EXCEPT !.turn_count = @ + 1]
    IN  IF LimitReached(counted.turn_count, counted.max_turns)
        THEN [counted EXCEPT !.state = "concluded"]
        ELSE counted

\* lines 43 and 57: a team keeps the max_turns it is given, unchecked
InitTeam ==
    /\ rng = 0
    /\ calls = [t \in Callers |-> NoCall]
    /\ frames = [t \in Callers |-> IdleFrame]
    /\ fin = NoFin
    /\ session = NotInUse /\ conversation = NotInUse
    /\ report = NotInUse /\ agent = NotInUse
    /\ \E max_turns \in 0..MaxTurns, stream \in Streams :
          team = [max_turns |-> max_turns, stream |-> stream, pc |-> "called",
                  conversation |-> NoConversation, yielded |-> 0, outcome |-> "running"]

\* lines 173-180: AgentConversation(state=ANALYZING, max_turns=self.max_turns);
\* what the constructor raises leaves through lines 203-205
CreateConversation ==
    /\ team.pc = "called"
    /\ LET made == AgentConversation("analyzing", 0, team.max_turns)
       IN  team' = IF made.outcome = "ok"
                   THEN [team EXCEPT !.pc = "streaming", !.conversation = made.value]
                   ELSE [team EXCEPT !.pc = "done", !.outcome = "raised"]
    /\ UNCHANGED <<rng, calls, frames, fin, session, conversation, report, agent>>

\* lines 186-195: the stream yields a message, which is processed; the loop
\* is left when the conversation is finished
StreamMessage ==
    /\ team.pc = "streaming"
    /\ team.yielded < team.stream.messages
    /\ LET c == process_streaming_message(team.conversation)
       IN  team' = [team EXCEPT !.conversation = c, !.yielded = @ + 1,
                                !.pc = IF is_finished(c) THEN "finalizing" ELSE "streaming"]
    /\ UNCHANGED <<rng, calls, frames, fin, session, conversation, report, agent>>

\* lines 186-189: the stream is exhausted
StreamEnds ==
    /\ team.pc = "streaming"
    /\ team.yielded = team.stream.messages
    /\ ~team.stream.raises
    /\ team' = [team EXCEPT !.pc = "finalizing"]
    /\ UNCHANGED <<rng, calls, frames, fin, session, conversation, report, agent>>

\* lines 186-189 and 203-205: the stream raises, and so does the call
StreamRaises ==
    /\ team.pc = "streaming"
    /\ team.yielded = team.stream.messages
    /\ team.stream.raises
    /\ team' = [team EXCEPT !.pc = "done", !.outcome = "raised"]
    /\ UNCHANGED <<rng, calls, frames, fin, session, conversation, report, agent>>

\* lines 197-201
Finalize ==
    /\ team.pc = "finalizing"
    /\ team' = [team EXCEPT !.conversation.state = "concluded",
                            !.pc = "done", !.outcome = "returned"]
    /\ UNCHANGED <<rng, calls, frames, fin, session, conversation, report, agent>>

NextTeam ==
    \/ CreateConversation
    \/ StreamMessage
    \/ StreamEnds
    \/ StreamRaises
    \/ Finalize

SpecTeam == InitTeam /\ [][NextTeam]_vars

(***************************************************************************)
(* Properties of analyze_decision                                          *)
(***************************************************************************)
\* C29: analyze_decision processes at most max_turns messages of the stream:
\* turn_count never exceeds max_turns, no message is taken from the stream
\* once the limit is reached, and a call that returns returns a conversation
\* in state CONCLUDED, whether the stream ended early or the limit was hit.
C29_AtMostMaxTurns ==
    /\ team.pc # "called" /\ team.conversation # NoConversation =>
          /\ team.conversation.turn_count <= team.conversation.max_turns
          /\ team.yielded = team.conversation.turn_count
          /\ team.conversation.turn_count >= team.conversation.max_turns
                => team.pc # "streaming"
    /\ team.outcome = "returned" => team.conversation.state = "concluded"

\* a call that returned after it left messages in the stream
C29_Witness ==
    /\ team.outcome = "returned"
    /\ team.conversation.turn_count = team.conversation.max_turns
    /\ team.yielded < team.stream.messages

(***************************************************************************)
(* BaseStrategicAgent._execute_tool (src/src/agents/base_agent.py, lines   *)
(* 99-152) and the AgentMetrics it updates (src/src/models/agent_models.py,*)
(* lines 256-289).  A tool is its name and whether its call returns or     *)
(* raises; execution_time is a whole number of seconds.  attempted and     *)
(* succeeded count the executions themselves.                              *)
(***************************************************************************)
MaxExecutions == 3    \* an agent executes at most this many tools
MaxSeconds == 1       \* an execution takes 0..MaxSeconds seconds

ToolNames == {"calculate_npv", "assess_risk"}
ToolBehaviours == {"returns", "raises"}

\* lines 259-268: the metrics of a new agent
AgentMetrics ==
    [total_messages |-> 0, average_response_time |-> RInt(0),
     tool_usage_count |-> 0, successful_tool_usage |-> 0]

\* lines 270-275
tool_success_rate(self) ==
    IF self.tool_usage_count = 0 THEN RInt(0)
    ELSE Rat(self.successful_tool_usage, self.tool_usage_count)

\* lines 277-289
update_metrics(self, response_time, tool_success) ==
    LET total_messages == self.total_messages + 1
        average == RDiv(RAdd(RMul(self.average_response_time, RInt(total_messages - 1)),
                             RInt(response_time)),
                        RInt(total_messages))
        counted == [self EXCEPT !.total_messages = total_messages,
                                !.average_response_time = average]
    IN  IF tool_success
        THEN [counted EXCEPT !.successful_tool_usage = @ + 1, !.tool_usage_count = @ + 1]
        ELSE counted

\* lines 99-152: the ToolResult returned and the metrics afterwards
execute_tool(self, tool_name, behaviour, execution_time) ==
    LET success == tool_name \in self.tools /\ behaviour = "returns"
    IN  [self EXCEPT !.metrics = update_metrics(@, execution_time, success),
                     !.result = Returns([tool_name |-> tool_name, success |-> success,
                                         execution_time |-> execution_time]),
                     !.attempted = @ + 1,
                     !.succeeded = IF success THEN @ + 1 ELSE @]

\* lines 42-72: an agent with its tools and new metrics
InitAgent ==
    /\ rng = 0
    /\ calls = [t \in Callers |-> NoCall]
    /\ frames = [t \in Callers |-> IdleFrame]
    /\ fin = NoFin
    /\ session = NotInUse /\ conversation = NotInUse
    /\ report = NotInUse /\ team = NotInUse
    /\ \E tools \in SUBSET ToolNames :
          agent = [tools |-> tools, metrics |-> AgentMetrics, result |-> [outcome |-> "none", value |-> None],
                   attempted |-> 0, succeeded |-> 0]

ExecuteTool(tool_name, behaviour, execution_time) ==
    /\ agent.attempted < MaxExecutions
    /\ agent' = execute_tool(agent, tool_name, behaviour, execution_time)
    /\ UNCHANGED <<rng, calls, frames, fin, session, conversation, report, team>>

NextAgent ==
    \E tool_name \in ToolNames, behaviour \in ToolBehaviours, execution_time \in 0..MaxSeconds :
        ExecuteTool(tool_name, behaviour, execution_time)

SpecAgent == InitAgent /\ [][NextAgent]_vars

(***************************************************************************)
(* Properties of _execute_tool                                             *)
(***************************************************************************)
\* C30: after any sequence of _execute_tool calls, each of which returns a
\* ToolResult, tool_usage_count is the number of executions attempted,
\* successful_tool_usage the number that succeeded, and tool_success_rate
\* the fraction of the executions that succeeded.
C30_MetricsCountExecutions ==
    /\ agent.attempted > 0 => agent.result.outcome = "ok"
    /\ agent.metrics.tool_usage_count = agent.attempted
    /\ agent.metrics.successful_tool_usage = agent.succeeded
    /\ agent.attempted > 0 =>
          tool_success_rate(agent.metrics) = Rat(agent.succeeded, agent.attempted)

(***************************************************************************)
(* DecisionReport (src/src/models/report_models.py, lines 227-317): the    *)
(* status and the timestamps of a report, and the clock datetime.now()     *)
(* reads.                                                                  *)
(***************************************************************************)
MaxClock == 3    \* the clock reads 0..MaxClock

\* lines 22-29
ReportStatuses == {"draft", "completed", "reviewed", "approved", "rejected"}

\* lines 232 and 257-260: a report constructed with the defaults at time now
DecisionReport(now) ==
    [status |-> "draft", created_at |-> now, completed_at |-> None,
     reviewed_at |-> None, approved_at |-> None]

mark_reviewed_without_timestamp(self, now) == [self EXCEPT !.status = "reviewed"]

\* lines 304-307
mark_completed(self, now) ==
    [self EXCEPT !.status = "completed", !.completed_at = Some(now)]
\* lines 309-312
mark_reviewed(self, now) ==
    [self EXCEPT !.status = "reviewed", !.reviewed_at = Some(now)]
\* lines 314-317
mark_approved(self, now) ==
    [self EXCEPT !.status = "approved", !.approved_at = Some(now)]

InitReport ==
    /\ rng = 0
    /\ calls = [t \in Callers |-> NoCall]
    /\ frames = [t \in Callers |-> IdleFrame]
    /\ fin = NoFin
    /\ session = NotInUse /\ conversation = NotInUse /\ agent = NotInUse /\ team = NotInUse
    /\ report = [object |-> DecisionReport(0), now |-> 0, last |-> "DecisionReport"]

\* time passes
Tick ==
    /\ report.now < MaxClock
    /\ report' = [report EXCEPT !.now = @ + 1]
    /\ UNCHANGED <<rng, calls, frames, fin, session, conversation, agent, team>>

MarkCompleted ==
    /\ report' = [report EXCEPT !.object = mark_completed(@, report.now),
                                !.last = "mark_completed"]
    /\ UNCHANGED <<rng, calls, frames, fin, session, conversation, agent, team>>

MarkReviewed ==
    /\ report' = [report EXCEPT !.object = mark_reviewed(@, report.now),
                                !.last = "mark_reviewed"]
    /\ UNCHANGED <<rng, calls, frames, fin, session, conversation, agent, team>>

MarkApproved ==
    /\ report' = [report EXCEPT !.object = mark_approved(@, report.now),
                                !.last = "mark_approved"]
    /\ UNCHANGED <<rng, calls, frames, fin, session, conversation, agent, team>>

NextReport == Tick \/ MarkCompleted \/ MarkReviewed \/ MarkApproved

SpecReport == InitReport /\ [][NextReport]_vars

(***************************************************************************)
(* Properties of DecisionReport                                            *)
(***************************************************************************)
\* C24: mark_completed, mark_reviewed and mark_approved leave the status
\* COMPLETED, REVIEWED and APPROVED with the matching timestamp set to the
\* time of the call; hence, after any sequence of them on a fresh DRAFT
\* report, a status of COMPLETED, REVIEWED or APPROVED has its timestamp set.
C24_StatusHasTimestamp ==
    LET r == report.object
    IN  /\ report.last = "mark_completed" => r.status = "completed" /\ r.completed_at # None
        /\ report.last = "mark_reviewed" => r.status = "reviewed" /\ r.reviewed_at # None
        /\ report.last = "mark_approved" => r.status = "approved" /\ r.approved_at # None
        /\ r.status = "completed" => r.completed_at # None
        /\ r.status = "reviewed" => r.reviewed_at # None
        /\ r.status = "approved" => r.approved_at # None
        /\ \A t \in {r.completed_at, r.reviewed_at, r.approved_at} :
              t # None => t[1] <= report.now

\* a report reviewed, later than it was created, that was never completed
C24_Witness ==
    /\ report.last = "mark_reviewed" /\ report.object.status = "reviewed"
    /\ report.object.reviewed_at = Some(2)
    /\ report.object.completed_at = None

(***************************************************************************)
(* Properties of calculate_sensitivity_analysis: tornado and elasticity    *)
(***************************************************************************)
\* a call that returned, made with an objective function that left the base
\* case it was given as it was
SensitivityReturned(t) ==
    /\ calls[t].op = "sensitivity" /\ calls[t].outcome = "ok"
    /\ calls[t].base_case_inputs = Floats(calls[t].inp.base_case_inputs)
TornadoNames(value) ==
    {value.tornado_chart_data[i][1] : i \in DOMAIN value.tornado_chart_data}
\* (f(base with name x 1.1) - f(base with name x 0.9)) / 2
TenPercentImpact(objective, base, name) ==
    RDiv(RSub(sens_objective_function(objective, WithItem(base, name, RMul(base[name], Rat(11, 10)))),
              sens_objective_function(objective, WithItem(base, name, RMul(base[name], Rat(9, 10))))),
         RInt(2))

C26_ResultAgreesWithRun ==
    \A t \in Callers : calls[t].op = "simulate" =>
        LET r == calls[t].value
            h == calls[t].inp.results
            tail == {v \in OutDom : RLe(RInt(v), r.var_95)}
            below == {v \in OutDom : v < 0}
        IN  /\ r.var_95 = r.percentiles.p5
            /\ r.var_95 = r.confidence_intervals.ci90[1]
            /\ SetSum(tail, h) > 0
            /\ r.cvar_95 = Rat(SetSum(tail, [v \in OutDom |-> v * h[v]]), SetSum(tail, h))
            /\ RLe(r.cvar_95, r.var_95)
            /\ r.probability_negative = Rat(SetSum(below, h), SetSum(OutDom, h))
            /\ RLe(RInt(0), r.probability_negative)
            /\ RLe(r.probability_negative, RInt(1))

\* a run with results below 0 and results equal to 0 whose var_95 lies
\* between two results and whose cvar_95 is below it
C26_Witness ==
    \E t \in Callers :
        /\ calls[t].op = "simulate"
        /\ calls[t].inp.results[0] > 0
        /\ RLt(RInt(0), calls[t].value.probability_negative)
        /\ calls[t].value.var_95[2] # 1
        /\ RLt(calls[t].value.cvar_95, calls[t].value.var_95)

(***************************************************************************)
(* Properties of identify_black_swan_scenarios                             *)
(***************************************************************************)
BlackSwanNames ==
    << <<"Black Swan: ", "Pandemic">>, <<"Black Swan: ", "Financial Crisis">>,
       <<"Black Swan: ", "Cyber Attack">>, <<"Black Swan: ", "Regulatory Shock">> >>
BaseProbabilities == <<Rat(5, 100), Rat(10, 100), Rat(15, 100), Rat(20, 100)>>

\* C27: for every industry and time horizon, identify_black_swan_scenarios
\* returns exactly four black_swan scenarios (pandemic, financial crisis,
\* cyber attack, regulatory shock), each with probability = base x industry
\* factor x horizon factor (cyber attack x 2 for "technology"; x 1.5 when the
\* horizon contains "long", otherwise x 0.5 when it contains "short"), and
\* every probability lies in [0, 1].
C27_FourBlackSwans ==
    \A t \in Callers : calls[t].op = "black_swan" =>
        LET value == calls[t].value
            industry == Lower(calls[t].inp.industry)
            horizon == Lower(calls[t].inp.time_horizon)
            long == HasSubstring(<<"l", "o", "n", "g">>, horizon)
            short == HasSubstring(<<"s", "h", "o", "r", "t">>, horizon)
            by_horizon == IF long THEN Rat(3, 2) ELSE IF short THEN Rat(1, 2) ELSE RInt(1)
            by_industry == <<IF industry = <<"h", "e", "a", "l", "t", "h", "c", "a", "r", "e">> THEN Rat(3, 2) ELSE RInt(1),
                             IF industry = <<"f", "i", "n", "a", "n", "c", "i", "a", "l">> THEN Rat(3, 2) ELSE RInt(1),
                             IF industry = <<"t", "e", "c", "h", "n", "o", "l", "o", "g", "y">> THEN RInt(2) ELSE RInt(1),
                             RInt(1)>>
        IN  /\ calls[t].outcome = "ok"
            /\ Len(value) = 4
            /\ \A i \in 1..4 :
                  /\ value[i].scenario_name = BlackSwanNames[i]
                  /\ value[i].scenario_type = "black_swan"
                  /\ value[i].probability =
                        RMul(RMul(BaseProbabilities[i], by_industry[i]), by_horizon)
                  /\ RLe(RInt(0), value[i].probability)
                  /\ RLe(value[i].probability, RInt(1))

\* the scenarios of a technology decision whose horizon names both "short"
\* and "long": the cyber attack has probability 0.15 x 2 x 1.5
C27_Witness ==
    \E t \in Callers :
        /\ calls[t].op = "black_swan" /\ calls[t].outcome = "ok"
        /\ calls[t].inp.industry = <<"T", "E", "C", "H", "N", "O", "L", "O", "G", "Y">>
        /\ calls[t].inp.time_horizon = <<"s", "h", "o", "r", "t", " ", "t", "o", " ", "l", "o", "n", "g">>
        /\ calls[t].value[3].probability = Rat(45, 100)

(***************************************************************************)
(* Properties of calculate_sensitivity_analysis: the caller's dict         *)
(***************************************************************************)
\* C28: the sensitivity operation never modifies the caller's base case:
\* every call of the objective function is given a fresh copy of it, and
\* after the call the caller's dict is what it was before the call.
C28_BaseCaseUntouched ==
    \A t \in Callers : calls[t].op = "sensitivity" =>
        /\ calls[t].calls_on_callers_dict = 0
        /\ calls[t].base_case_inputs = Floats(calls[t].inp.base_case_inputs)

====
